---- MODULE Spec2Model ----
(***************************************************************************)
(* The list repository of SuShe NG (src/utils/list_repository.py): album   *)
(* lists stored as files, and a metadata sidecar (metadata.json) holding   *)
(* the recent lists, the favorite lists and the collections.               *)
(*                                                                         *)
(* Strings that the code inspects character by character (paths and file   *)
(* names: endswith, replace, slicing) are sequences of one-character       *)
(* strings.  Collection names are plain strings; the code only tests them  *)
(* for blankness and uses them as dictionary keys.                         *)
(*                                                                         *)
(* The in-memory metadata (self.metadata) and the sidecar file on disk are *)
(* separate variables: _save_metadata copies the first to the second and   *)
(* swallows its own I/O errors, __init__ copies the second to the first.   *)
(* The last_updated timestamp of the sidecar is not modelled.              *)
(***************************************************************************)
EXTENDS Integers, Sequences, FiniteSets, TLC

VARIABLES
    metadata,   \* self.metadata: [recent_lists, favorite_lists, collections]
    disk,       \* metadata.json: [state, data]
    files,      \* the list files that exist: path -> content kind
    dirs,       \* the directories that exist under Collections/
    pc,         \* position inside a save_list or delete_list call
    ret,        \* the last completed call and what it returned or raised
    calls_left, \* calls that may still be started
    faults_left \* I/O failures and crashes that may still happen

vars == <<metadata, disk, files, dirs, pc, ret, calls_left, faults_left>>

----------------------------------------------------------------------------
(* Bounds of the model *)

MaxCalls == 3

MaxFaults == 1

MaxRecentCalls == 2

----------------------------------------------------------------------------
(* Program constants *)

RecentLimit == 10

\* the default limit of get_recent_lists
DefaultQueryLimit == 5

MaxFilenameLen == 100

SUSH == <<".", "s", "u", "s", "h">>

JSON == <<".", "j", "s", "o", "n">>

TXT == <<".", "t", "x", "t">>

InvalidChars == {"\\", "/", ":", "*", "?", "\"", "<", ">", "|"}

UntitledList == <<"U", "n", "t", "i", "t", "l", "e", "d", " ", "L", "i", "s", "t">>

DefaultCollection == "My Collection"

lists_dir == <<"L">>

----------------------------------------------------------------------------
(* Python string and list primitives *)

EndsWith(s, suffix) ==
    /\ Len(s) >= Len(suffix)
    /\ SubSeq(s, Len(s) - Len(suffix) + 1, Len(s)) = suffix

\* os.path.join(directory, file_name) for a file_name that is not absolute
Join(directory, file_name) == directory \o <<"/">> \o file_name

\* x in s
InSeq(x, s) == \E i \in 1..Len(s) : s[i] = x

\* s[:n]
Take(s, n) == SubSeq(s, 1, IF Len(s) < n THEN Len(s) ELSE n)

\* s.remove(x): drops the first occurrence of x (the callers test x in s first)
ListRemove(s, x) ==
    IF ~InSeq(x, s) THEN s
    ELSE LET i == CHOOSE k \in 1..Len(s) :
                     s[k] = x /\ \A j \in 1..(k - 1) : s[j] # x
         IN  SubSeq(s, 1, i - 1) \o SubSeq(s, i + 1, Len(s))

\* not name.strip()
IsBlank(name) == name \in {"", " "}

NoDup(s) == \A i, j \in 1..Len(s) : s[i] = s[j] => i = j

----------------------------------------------------------------------------
(* The universe of inputs *)

\* the file names, titles and numbers of albums save_list is called with
SaveInputs ==
    { [file_name |-> <<"a", ":">>,         has_title |-> TRUE,  title |-> <<"t">>,
       albums |-> 1],
      [file_name |-> <<"a", "_">> \o SUSH, has_title |-> FALSE, title |-> <<>>,
       albums |-> 0],
      [file_name |-> <<>>,                 has_title |-> TRUE,  title |-> <<"a", "?">>,
       albums |-> 1] }

ListA == Join(lists_dir, <<"a", "_">> \o SUSH)

ExtJson == <<"x">> \o JSON

ExtTxt == <<"x">> \o TXT

\* the paths the path-taking operations are called with
Paths == {ListA, ExtJson, ExtTxt}

\* the collections that lists are added to and removed from, and that are
\* deleted
CollNames == {DefaultCollection, "A"}

\* the names rename_collection is asked to rename, one of them blank
OldNames == CollNames \cup {" "}

\* the names a collection is created with or renamed to, one of them blank
NewNames == {"A", "B", " "}

\* the files outside the repository when the program starts: a legacy list
\* without albums, and a legacy list under an extension that is no list
\* extension
ExternalFiles == (ExtJson :> "legacy_empty") @@ (ExtTxt :> "legacy")

----------------------------------------------------------------------------
(* The metadata sidecar *)

\* the empty dictionary
NoCollections == [c \in {} |-> <<>>]

\* _load_metadata's default metadata
DefaultMetadata ==
    [recent_lists |-> <<>>, favorite_lists |-> <<>>, collections |-> NoCollections]

\* _load_metadata: the sidecar when it exists and parses, the default otherwise
LoadMetadata(d) == IF d.state = "ok" THEN d.data ELSE DefaultMetadata

\* _save_metadata ends in one of these ways: the sidecar is written, or the
\* write raises before the file is opened and the sidecar keeps its content.
\* A write that fails after open(.., "w") emptied the file is left out: the
\* next _load_metadata would fall back to the default metadata.
WriteOutcomes == {"ok", "unchanged"}

\* _save_metadata: the sidecar after an attempt to write md; a failure is
\* logged and swallowed
SaveMetadata(md, d, outcome) ==
    IF outcome = "ok" THEN [state |-> "ok", data |-> md] ELSE d

Cost(outcome) == IF outcome = "ok" THEN 0 ELSE 1

FaultsLeft(n) == n <= faults_left

----------------------------------------------------------------------------
(* Dictionary primitives on the collections mapping *)

\* collections[name] = members
DictSet(collections, name, members) ==
    [c \in DOMAIN collections \cup {name} |->
        IF c = name THEN members ELSE collections[c]]

\* del collections[name]
DictDel(collections, name) ==
    [c \in DOMAIN collections \ {name} |-> collections[c]]

----------------------------------------------------------------------------
(* Results of calls *)

Idle == [at |-> "idle", path |-> <<>>]

Return(op, args, val, saved, fs, via) ==
    [op |-> op, args |-> args, val |-> val, saved |-> saved, fs |-> fs, via |-> via]

\* a call may start when no call is in progress
CallStart ==
    /\ pc = Idle
    /\ calls_left > 0
    /\ calls_left' = calls_left - 1

----------------------------------------------------------------------------
(* Construction *)

\* __init__: the metadata after loading the sidecar and ensuring a default
\* collection
InitMetadata(d) ==
    LET md == LoadMetadata(d)
    IN  IF DOMAIN md.collections = {}
        THEN [md EXCEPT !.collections = DictSet(NoCollections, DefaultCollection, <<>>)]
        ELSE md

\* __init__ saves only when it created the default collection
InitDisk(d, w) ==
    IF DOMAIN LoadMetadata(d).collections = {}
    THEN SaveMetadata(InitMetadata(d), d, w)
    ELSE d

Init ==
    /\ disk = InitDisk([state |-> "absent", data |-> DefaultMetadata], "ok")
    /\ metadata = InitMetadata([state |-> "absent", data |-> DefaultMetadata])
    /\ files = ExternalFiles
    /\ dirs = {}
    /\ pc = Idle
    /\ ret = Return("__init__", <<>>, "None", "ok", "none", "none")
    /\ calls_left = MaxCalls
    /\ faults_left = MaxFaults

\* the program is started again: a new ListRepository on the same directory
Restart ==
    /\ CallStart
    /\ \E w \in WriteOutcomes :
        /\ FaultsLeft(Cost(w))
        /\ w # "ok" => DOMAIN LoadMetadata(disk).collections = {}
        /\ metadata' = InitMetadata(disk)
        /\ disk' = InitDisk(disk, w)
        /\ faults_left' = faults_left - Cost(w)
        /\ ret' = Return("__init__", <<>>, "None",
                         IF DOMAIN LoadMetadata(disk).collections = {} THEN w ELSE "none",
                         "none", "none")
    /\ pc' = Idle
    /\ UNCHANGED <<files, dirs>>

\* the process dies inside a save_list or delete_list call and the program is
\* started again
Crash ==
    /\ pc # Idle
    /\ FaultsLeft(1)
    /\ metadata' = InitMetadata(disk)
    /\ disk' = InitDisk(disk, "ok")
    /\ faults_left' = faults_left - 1
    /\ pc' = Idle
    /\ ret' = Return("crash", <<pc.at, pc.path>>, "None", "none", "none", "none")
    /\ UNCHANGED <<files, dirs, calls_left>>

----------------------------------------------------------------------------
(* Recent lists and favorites *)

\* add_list_to_recent without the removal of the earlier entry
RecentAfterAdd_NoRemove(recent_lists, file_path) ==
    Take(<<file_path>> \o recent_lists, RecentLimit)

\* add_list_to_recent: the new recent_lists
RecentAfterAdd(recent_lists, file_path) ==
    Take(<<file_path>> \o ListRemove(recent_lists, file_path), RecentLimit)

\* add_list_to_recent as a step of a call: the metadata and the sidecar after it
RecordRecent(file_path, w) ==
    /\ metadata' = [metadata EXCEPT
                       !.recent_lists = RecentAfterAdd(@, file_path)]
    /\ disk' = SaveMetadata(metadata', disk, w)

add_list_to_recent(file_path) ==
    /\ CallStart
    /\ \E w \in WriteOutcomes :
        /\ FaultsLeft(Cost(w))
        /\ RecordRecent(file_path, w)
        /\ faults_left' = faults_left - Cost(w)
        /\ ret' = Return("add_list_to_recent", <<file_path>>, "None", w, "none", "none")
    /\ UNCHANGED <<files, dirs, pc>>

toggle_favorite(file_path) ==
    /\ CallStart
    /\ \E w \in WriteOutcomes :
        /\ FaultsLeft(Cost(w))
        /\ metadata' = [metadata EXCEPT !.favorite_lists =
                           IF InSeq(file_path, @) THEN ListRemove(@, file_path)
                           ELSE Append(@, file_path)]
        /\ disk' = SaveMetadata(metadata', disk, w)
        /\ faults_left' = faults_left - Cost(w)
        /\ ret' = Return("toggle_favorite", <<file_path>>,
                         IF InSeq(file_path, metadata.favorite_lists)
                         THEN "False" ELSE "True",
                         w, "none", "none")
    /\ UNCHANGED <<files, dirs, pc>>

----------------------------------------------------------------------------
(* Collections *)

FsOutcomes == {"ok", "error"}

\* add_to_collection appending the path without looking for it
CollectionsAfterAdd_NoCheck(collections, file_path, collection_name) ==
    LET created == IF collection_name \in DOMAIN collections THEN collections
                   ELSE DictSet(collections, collection_name, <<>>)
    IN  DictSet(created, collection_name, Append(created[collection_name], file_path))

\* add_to_collection: the new collections mapping
CollectionsAfterAdd(collections, file_path, collection_name) ==
    LET created == IF collection_name \in DOMAIN collections THEN collections
                   ELSE DictSet(collections, collection_name, <<>>)
    IN  IF InSeq(file_path, created[collection_name]) THEN created
        ELSE DictSet(created, collection_name,
                     Append(created[collection_name], file_path))

add_to_collection(file_path, collection_name) ==
    /\ CallStart
    /\ \E w \in WriteOutcomes :
        /\ FaultsLeft(Cost(w))
        /\ metadata' = [metadata EXCEPT !.collections =
                           CollectionsAfterAdd(@, file_path, collection_name)]
        /\ disk' = SaveMetadata(metadata', disk, w)
        /\ faults_left' = faults_left - Cost(w)
        /\ ret' = Return("add_to_collection", <<file_path, collection_name>>,
                         "None", w, "none", "none")
    /\ UNCHANGED <<files, dirs, pc>>

\* remove_from_collection: the new collections mapping when the list is a
\* member; a collection left empty is removed
CollectionsAfterRemove(collections, file_path, collection_name) ==
    LET members == ListRemove(collections[collection_name], file_path)
    IN  IF members = <<>> THEN DictDel(collections, collection_name)
        ELSE DictSet(collections, collection_name, members)

remove_from_collection(file_path, collection_name) ==
    /\ CallStart
    /\ IF /\ collection_name \in DOMAIN metadata.collections
          /\ InSeq(file_path, metadata.collections[collection_name])
       THEN \E w \in WriteOutcomes :
               /\ FaultsLeft(Cost(w))
               /\ metadata' = [metadata EXCEPT !.collections =
                                  CollectionsAfterRemove(@, file_path, collection_name)]
               /\ disk' = SaveMetadata(metadata', disk, w)
               /\ faults_left' = faults_left - Cost(w)
               /\ ret' = Return("remove_from_collection", <<file_path, collection_name>>,
                                "None", w, "none", "none")
       ELSE /\ ret' = Return("remove_from_collection", <<file_path, collection_name>>,
                             "None", "none", "none", "none")
            /\ UNCHANGED <<metadata, disk, faults_left>>
    /\ UNCHANGED <<files, dirs, pc>>

\* create_collection without the check for an existing collection
CreatesCollection_NoExistsCheck(collections, collection_name) ==
    ~IsBlank(collection_name)

\* create_collection: whether the call goes on to create anything
CreatesCollection(collections, collection_name) ==
    /\ ~IsBlank(collection_name)
    /\ collection_name \notin DOMAIN collections

create_collection(collection_name) ==
    /\ CallStart
    /\ IF CreatesCollection(metadata.collections, collection_name)
       THEN \E m \in FsOutcomes, w \in WriteOutcomes :
               /\ FaultsLeft(Cost(m) + Cost(w))
               /\ IF m = "ok"
                  THEN /\ dirs' = dirs \cup {collection_name}
                       /\ metadata' = [metadata EXCEPT !.collections =
                                          DictSet(@, collection_name, <<>>)]
                       /\ disk' = SaveMetadata(metadata', disk, w)
                       /\ ret' = Return("create_collection", <<collection_name>>,
                                        "None", w, m, "none")
                  ELSE \* os.makedirs raises and nothing catches it
                       /\ w = "ok"
                       /\ ret' = Return("create_collection", <<collection_name>>,
                                        "OSError", "none", m, "none")
                       /\ UNCHANGED <<metadata, disk, dirs>>
               /\ faults_left' = faults_left - (Cost(m) + Cost(w))
       ELSE /\ ret' = Return("create_collection", <<collection_name>>,
                             "None", "none", "none", "none")
            /\ UNCHANGED <<metadata, disk, dirs, faults_left>>
    /\ UNCHANGED <<files, pc>>

\* rename_collection without the check that the new name is free
RenameAllowed_Overwrite(collections, old_name, new_name) ==
    /\ ~IsBlank(old_name)
    /\ ~IsBlank(new_name)
    /\ old_name \in DOMAIN collections

\* rename_collection: whether the rename is carried out
RenameAllowed(collections, old_name, new_name) ==
    /\ ~IsBlank(old_name)
    /\ ~IsBlank(new_name)
    /\ old_name \in DOMAIN collections
    /\ new_name \notin DOMAIN collections

\* rename_collection creating the new collection empty
CollectionsAfterRename_Empty(collections, old_name, new_name) ==
    DictDel(DictSet(collections, new_name, <<>>), old_name)

\* rename_collection: the new collections mapping
CollectionsAfterRename(collections, old_name, new_name) ==
    DictDel(DictSet(collections, new_name, collections[old_name]), old_name)

\* rename_collection reporting a failed directory rename as a failure
RenameResult_FailOnError(r) == IF r = "error" THEN "False" ELSE "True"

\* rename_collection: what it returns when the rename was carried out and the
\* directory rename ended with outcome r
RenameResult(r) == "True"

rename_collection(old_name, new_name) ==
    /\ CallStart
    /\ IF RenameAllowed(metadata.collections, old_name, new_name)
       THEN \E r \in FsOutcomes, w \in WriteOutcomes :
               /\ FaultsLeft(Cost(r) + Cost(w))
               \* os.rename is tried only when the old directory exists
               /\ old_name \notin dirs => r = "ok"
               /\ dirs' = IF old_name \in dirs /\ r = "ok"
                          THEN (dirs \ {old_name}) \cup {new_name}
                          ELSE dirs
               /\ metadata' = [metadata EXCEPT !.collections =
                                  CollectionsAfterRename(@, old_name, new_name)]
               /\ disk' = SaveMetadata(metadata', disk, w)
               /\ faults_left' = faults_left - (Cost(r) + Cost(w))
               /\ ret' = Return("rename_collection", <<old_name, new_name>>,
                                RenameResult(r), w,
                                IF old_name \in dirs THEN r ELSE "none", "none")
       ELSE /\ ret' = Return("rename_collection", <<old_name, new_name>>,
                             "False", "none", "none", "none")
            /\ UNCHANGED <<metadata, disk, dirs, faults_left>>
    /\ UNCHANGED <<files, pc>>

\* delete_collection: whether the collection it deletes had members
HadMembers(collections, collection_name) ==
    IF collections[collection_name] # <<>> THEN "members" ELSE "empty"

\* delete_collection giving up, and keeping the collection, when its
\* directory cannot be removed
delete_collection_FailOnDirError(collection_name) ==
    /\ CallStart
    /\ IF collection_name \in DOMAIN metadata.collections
       THEN \E r \in FsOutcomes, w \in WriteOutcomes :
               /\ FaultsLeft(Cost(r) + Cost(w))
               /\ collection_name \notin dirs => r = "ok"
               /\ dirs' = IF r = "ok" THEN dirs \ {collection_name} ELSE dirs
               /\ metadata' = IF r = "ok"
                              THEN [metadata EXCEPT !.collections =
                                       DictDel(@, collection_name)]
                              ELSE metadata
               /\ disk' = SaveMetadata(metadata', disk, w)
               /\ faults_left' = faults_left - (Cost(r) + Cost(w))
               /\ ret' = Return("delete_collection", <<collection_name>>,
                                IF r = "ok" THEN "True" ELSE "False", w,
                                IF collection_name \in dirs THEN r ELSE "none",
                                HadMembers(metadata.collections, collection_name))
       ELSE /\ ret' = Return("delete_collection", <<collection_name>>,
                             "False", "none", "none", "none")
            /\ UNCHANGED <<metadata, disk, dirs, faults_left>>
    /\ UNCHANGED <<files, pc>>

\* delete_collection deleting the member lists together with the collection
delete_collection_WithLists(collection_name) ==
    /\ CallStart
    /\ IF collection_name \in DOMAIN metadata.collections
       THEN \E r \in FsOutcomes, w \in WriteOutcomes :
               /\ FaultsLeft(Cost(r) + Cost(w))
               /\ collection_name \notin dirs => r = "ok"
               /\ dirs' = IF r = "ok" THEN dirs \ {collection_name} ELSE dirs
               /\ metadata' = [metadata EXCEPT !.collections =
                                  DictDel(@, collection_name)]
               /\ files' = [p \in {q \in DOMAIN files :
                                    ~InSeq(q, metadata.collections[collection_name])}
                               |-> files[p]]
               /\ disk' = SaveMetadata(metadata', disk, w)
               /\ faults_left' = faults_left - (Cost(r) + Cost(w))
               /\ ret' = Return("delete_collection", <<collection_name>>, "True", w,
                                IF collection_name \in dirs THEN r ELSE "none",
                                HadMembers(metadata.collections, collection_name))
       ELSE /\ ret' = Return("delete_collection", <<collection_name>>,
                             "False", "none", "none", "none")
            /\ UNCHANGED <<metadata, disk, dirs, faults_left, files>>
    /\ UNCHANGED pc

delete_collection(collection_name) ==
    /\ CallStart
    /\ IF collection_name \in DOMAIN metadata.collections
       THEN \E r \in FsOutcomes, w \in WriteOutcomes :
               /\ FaultsLeft(Cost(r) + Cost(w))
               \* shutil.rmtree is tried only when the directory exists
               /\ collection_name \notin dirs => r = "ok"
               /\ dirs' = IF r = "ok" THEN dirs \ {collection_name} ELSE dirs
               /\ metadata' = [metadata EXCEPT !.collections =
                                  DictDel(@, collection_name)]
               /\ disk' = SaveMetadata(metadata', disk, w)
               /\ faults_left' = faults_left - (Cost(r) + Cost(w))
               /\ ret' = Return("delete_collection", <<collection_name>>, "True", w,
                                IF collection_name \in dirs THEN r ELSE "none",
                                HadMembers(metadata.collections, collection_name))
       ELSE /\ ret' = Return("delete_collection", <<collection_name>>,
                             "False", "none", "none", "none")
            /\ UNCHANGED <<metadata, disk, dirs, faults_left>>
    /\ UNCHANGED <<files, pc>>

\* what a file written completely by export_to_new_format holds: a list in
\* the current format, with albums or without
CurrentKinds == {"current", "current_empty"}

\* a query that builds a list_info for every path the metadata holds
HasListInfo_Any(file_path) == TRUE

\* os.path.exists and _get_list_info: a list_info, unless the file is missing
\* or does not hold a JSON object
HasListInfo(file_path) ==
    file_path \in DOMAIN files /\ files[file_path] \in CurrentKinds

\* get_recent_lists: the paths of the list_infos it returns
get_recent_lists(limit) ==
    SelectSeq(Take(metadata.recent_lists, limit), HasListInfo)

\* get_favorite_lists: the paths of the list_infos it returns
get_favorite_lists ==
    SelectSeq(metadata.favorite_lists, HasListInfo)

\* get_collections: the members shown for each collection
ShownCollections(collections) ==
    [c \in DOMAIN collections |-> SelectSeq(collections[c], HasListInfo)]

\* get_collections showing the collections as they are, without creating the
\* default collection when there is none
get_collections_NoDefault ==
    /\ CallStart
    /\ ret' = Return("get_collections", <<>>,
                     ShownCollections(metadata.collections),
                     "none", "none", "none")
    /\ UNCHANGED <<metadata, disk, faults_left, files, dirs, pc>>

get_collections ==
    /\ CallStart
    /\ IF DOMAIN metadata.collections = {}
       THEN \E w \in WriteOutcomes :
               /\ FaultsLeft(Cost(w))
               /\ metadata' = [metadata EXCEPT !.collections =
                                  DictSet(NoCollections, DefaultCollection, <<>>)]
               /\ disk' = SaveMetadata(metadata', disk, w)
               /\ faults_left' = faults_left - Cost(w)
               /\ ret' = Return("get_collections", <<>>,
                                ShownCollections(metadata'.collections), w, "none", "none")
       ELSE /\ ret' = Return("get_collections", <<>>,
                             ShownCollections(metadata.collections),
                             "none", "none", "none")
            /\ UNCHANGED <<metadata, disk, faults_left>>
    /\ UNCHANGED <<files, dirs, pc>>

----------------------------------------------------------------------------
(* Saving, loading and deleting lists *)

\* _sanitize_filename
SanitizeFilename(filename) ==
    LET replaced == [i \in 1..Len(filename) |->
                        IF filename[i] \in InvalidChars THEN "_" ELSE filename[i]]
    IN  IF Len(replaced) > MaxFilenameLen
        THEN SubSeq(replaced, 1, MaxFilenameLen)
        ELSE replaced

\* save_list: the path of the file it writes
SavePath(inp) ==
    LET given == IF inp.file_name # <<>> THEN inp.file_name
                 ELSE IF inp.has_title THEN inp.title ELSE UntitledList
        safe == SanitizeFilename(given)
        named == IF EndsWith(safe, SUSH) THEN safe ELSE safe \o SUSH
    IN  Join(lists_dir, named)

\* export_to_new_format ends in one of these ways: the file is written; an
\* exception while the data is built, before the file is opened; open() fails;
\* the write fails after open(.., 'w') truncated the file
ExportOutcomes == {"ok", "build_error", "open_error", "write_error"}

\* export_to_new_format: what the file holds that it writes for n albums
Written(n) == IF n = 0 THEN "current_empty" ELSE "current"

\* export_to_new_format: the files after it
FilesAfterExport(fs, file_path, content, e) ==
    CASE e = "ok"          -> [p \in DOMAIN fs \cup {file_path} |->
                                  IF p = file_path THEN content ELSE fs[p]]
      [] e = "write_error" -> [p \in DOMAIN fs \cup {file_path} |->
                                  IF p = file_path THEN "garbage" ELSE fs[p]]
      [] OTHER             -> fs

\* save_list recording the path in the recent lists before the export
save_list_export_RecordFirst(inp) ==
    /\ CallStart
    /\ RecordRecent(SavePath(inp), "ok")
    /\ \E e \in ExportOutcomes :
        /\ FaultsLeft(Cost(e))
        /\ files' = FilesAfterExport(files, SavePath(inp), Written(inp.albums), e)
        /\ faults_left' = faults_left - Cost(e)
        /\ pc' = Idle
        /\ ret' = Return("save_list", <<SavePath(inp)>>,
                         CASE e = "ok" -> "path"
                           [] e = "build_error" -> "AttributeError"
                           [] OTHER -> "ExportError",
                         "ok", e, "none")
    /\ UNCHANGED dirs

\* save_list, first step: export_to_new_format(albums, metadata, file_path)
save_list_export(inp) ==
    /\ CallStart
    /\ \E e \in ExportOutcomes :
        /\ FaultsLeft(Cost(e))
        /\ files' = FilesAfterExport(files, SavePath(inp), Written(inp.albums), e)
        /\ faults_left' = faults_left - Cost(e)
        /\ IF e = "ok"
           THEN /\ pc' = [at |-> "save_list", path |-> SavePath(inp)]
                /\ ret' = ret
           ELSE /\ pc' = Idle
                /\ ret' = Return("save_list", <<SavePath(inp)>>,
                                 IF e = "build_error" THEN "AttributeError"
                                 ELSE "ExportError",
                                 "none", e, "none")
    /\ UNCHANGED <<metadata, disk, dirs>>

\* save_list, second step: add_list_to_recent(file_path); return file_path
save_list_record ==
    /\ pc.at = "save_list"
    /\ \E w \in WriteOutcomes :
        /\ FaultsLeft(Cost(w))
        /\ RecordRecent(pc.path, w)
        /\ faults_left' = faults_left - Cost(w)
        /\ ret' = Return("save_list", <<pc.path>>, "path", w, "ok", "none")
    /\ pc' = Idle
    /\ UNCHANGED <<files, dirs, calls_left>>

\* load_list dispatching on what the file holds instead of its extension
Decoder_ByContent(file_path) ==
    IF file_path \in DOMAIN files /\ files[file_path] = "legacy"
    THEN "import_from_old_format"
    ELSE "import_from_new_format"

\* load_list: the decoder the path is dispatched to
Decoder(file_path) ==
    IF EndsWith(file_path, SUSH) THEN "import_from_new_format"
    ELSE IF EndsWith(file_path, JSON) THEN "import_from_old_format"
    ELSE "none"

\* import_from_new_format / import_from_old_format: every exception inside is
\* re-raised as ImportError: a missing file, JSON that does not parse, a JSON
\* document of the other format, and the TypeError of Album(..), which is
\* called with the keywords cover_image_data and cover_image_format that
\* Album.__init__ does not have, for the first album of the list
Decode(decoder, fs, file_path) ==
    IF file_path \notin DOMAIN fs THEN "ImportError: FileNotFoundError"
    ELSE IF \/ decoder = "import_from_new_format" /\ fs[file_path] = "current_empty"
            \/ decoder = "import_from_old_format" /\ fs[file_path] = "legacy_empty"
         THEN "ok"
         ELSE "ImportError"

\* load_list: what it returns or raises
LoadResult(fs, file_path) ==
    IF Decoder(file_path) = "none" THEN "ValueError"
    ELSE Decode(Decoder(file_path), fs, file_path)

load_list(file_path) ==
    /\ CallStart
    /\ \E w \in WriteOutcomes :
        /\ FaultsLeft(Cost(w))
        /\ RecordRecent(file_path, w)
        /\ faults_left' = faults_left - Cost(w)
        /\ ret' = Return("load_list", <<file_path>>, LoadResult(files, file_path),
                         w, "none", Decoder(file_path))
    /\ UNCHANGED <<files, dirs, pc>>

\* delete_list forgetting the collections
Purged_KeepCollections(md, file_path) ==
    [recent_lists   |-> ListRemove(md.recent_lists, file_path),
     favorite_lists |-> ListRemove(md.favorite_lists, file_path),
     collections    |-> md.collections]

\* delete_list: the metadata with every reference to the list removed
Purged(md, file_path) ==
    [recent_lists   |-> ListRemove(md.recent_lists, file_path),
     favorite_lists |-> ListRemove(md.favorite_lists, file_path),
     collections    |-> [c \in DOMAIN md.collections |->
                            ListRemove(md.collections[c], file_path)]]

\* for the record of a delete_list call: whether the metadata referred to the
\* list when the call started
WasReferenced(md, file_path) ==
    IF \/ InSeq(file_path, md.recent_lists)
       \/ InSeq(file_path, md.favorite_lists)
       \/ \E c \in DOMAIN md.collections : InSeq(file_path, md.collections[c])
    THEN "referenced" ELSE "unreferenced"

\* delete_list removing the file before it purges the metadata
delete_list_RemoveFirst(file_path) ==
    /\ CallStart
    /\ IF file_path \notin DOMAIN files
       THEN /\ ret' = Return("delete_list", <<file_path>>, "False",
                             "none", "none", "none")
            /\ UNCHANGED <<files, pc>>
       ELSE /\ files' = [p \in DOMAIN files \ {file_path} |-> files[p]]
            /\ pc' = [at |-> "delete_list", path |-> file_path]
            /\ ret' = Return("delete_list:purged", <<file_path>>, "None",
                             "none", "ok", WasReferenced(metadata, file_path))
    /\ UNCHANGED <<metadata, disk, dirs, faults_left>>

\* delete_list, first step: the existence check, the three purges and
\* _save_metadata
delete_list_purge(file_path) ==
    /\ CallStart
    /\ IF file_path \notin DOMAIN files
       THEN /\ ret' = Return("delete_list", <<file_path>>, "False",
                             "none", "none", "none")
            /\ UNCHANGED <<metadata, disk, faults_left, pc>>
       ELSE \E w \in WriteOutcomes :
               /\ FaultsLeft(Cost(w))
               /\ metadata' = Purged(metadata, file_path)
               /\ disk' = SaveMetadata(metadata', disk, w)
               /\ faults_left' = faults_left - Cost(w)
               /\ pc' = [at |-> "delete_list", path |-> file_path]
               /\ ret' = Return("delete_list:purged", <<file_path>>, "None",
                                w, "none", WasReferenced(metadata, file_path))
    /\ UNCHANGED <<files, dirs>>

\* delete_list, second step: os.remove(file_path); an exception gives False
delete_list_remove ==
    /\ pc.at = "delete_list"
    /\ \E r \in FsOutcomes :
        /\ FaultsLeft(Cost(r))
        /\ files' = IF r = "ok"
                    THEN [p \in DOMAIN files \ {pc.path} |-> files[p]]
                    ELSE files
        /\ faults_left' = faults_left - Cost(r)
        /\ ret' = Return("delete_list", <<pc.path>>,
                         IF r = "ok" THEN "True" ELSE "False",
                         ret.saved, r, ret.via)
    /\ pc' = Idle
    /\ UNCHANGED <<metadata, disk, dirs, calls_left>>

----------------------------------------------------------------------------
(* The repository under any sequence of calls *)

Next ==
    \/ Restart
    \/ Crash
    \/ \E p \in Paths : toggle_favorite(p)
    \/ \E p \in Paths, c \in CollNames : add_to_collection(p, c)
    \/ \E p \in Paths, c \in CollNames : remove_from_collection(p, c)
    \/ \E c \in NewNames : create_collection(c)
    \/ \E o \in OldNames, n \in NewNames : rename_collection(o, n)
    \/ \E c \in CollNames : delete_collection(c)
    \/ get_collections
    \/ \E inp \in SaveInputs : save_list_export(inp)
    \/ save_list_record
    \/ \E p \in Paths : load_list(p)
    \/ \E p \in Paths : delete_list_purge(p)
    \/ delete_list_remove

Spec == Init /\ [][Next]_vars

----------------------------------------------------------------------------
(* The recent lists of a repository that already holds up to RecentLimit   *)
(* lists: the sidecar left by k earlier save_list calls, one per name of   *)
(* RecentChars, and then save_list, load_list and add_list_to_recent on    *)
(* any of RecentLimit + 1 paths.                                           *)

RecentChars == <<"0", "1", "2", "3", "4", "5", "6", "7", "8", "9", "X">>

RecentPath(i) == Join(lists_dir, <<RecentChars[i]>> \o SUSH)

RecentInput(i) ==
    [file_name |-> <<RecentChars[i]>>, has_title |-> FALSE, title |-> <<>>,
     albums |-> 0]

\* the metadata after save_list was called for the names k, k-1, .. 1
SavedMetadata(k) ==
    [InitMetadata([state |-> "absent", data |-> DefaultMetadata])
        EXCEPT !.recent_lists = [i \in 1..k |-> RecentPath(i)]]

InitRecent ==
    \E k \in 0..RecentLimit :
        /\ metadata = SavedMetadata(k)
        /\ disk = [state |-> "ok", data |-> SavedMetadata(k)]
        /\ files = [p \in {RecentPath(i) : i \in 1..k} |-> "current_empty"]
        /\ dirs = {}
        /\ pc = Idle
        /\ ret = Return("__init__", <<>>, "None", "none", "none", "none")
        /\ calls_left = MaxRecentCalls
        /\ faults_left = 0

NextRecent ==
    \/ \E i \in 1..Len(RecentChars) : add_list_to_recent(RecentPath(i))
    \/ \E i \in 1..Len(RecentChars) : load_list(RecentPath(i))
    \/ \E i \in 1..Len(RecentChars) : save_list_export(RecentInput(i))
    \/ save_list_record

SpecRecent == InitRecent /\ [][NextRecent]_vars

----------------------------------------------------------------------------
(* File name sanitization as a function of its input: the specification    *)
(* starts from a file name and applies _sanitize_filename of either store, *)
(* again and again, to the result of the application before.               *)

MaxPrefixLen == 2

MaxSanitizeCalls == 2

\* the characters the regular expression class \w matches, among ASCII
WordChars ==
    { "a", "b", "c", "d", "e", "f", "g", "h", "i", "j", "k", "l", "m",
      "n", "o", "p", "q", "r", "s", "t", "u", "v", "w", "x", "y", "z",
      "A", "B", "C", "D", "E", "F", "G", "H", "I", "J", "K", "L", "M",
      "N", "O", "P", "Q", "R", "S", "T", "U", "V", "W", "X", "Y", "Z",
      "0", "1", "2", "3", "4", "5", "6", "7", "8", "9", "_" }

\* SimpleCollectionManager._sanitize_filename: re.sub(r'[^\w\-_.]', '_', ..)
\* and the cut to 100 characters
SCM_SanitizeFilename(filename) ==
    LET safe_name == [i \in 1..Len(filename) |->
                        IF filename[i] \in WordChars \cup {"-", "_", "."}
                        THEN filename[i] ELSE "_"]
    IN  IF Len(safe_name) > MaxFilenameLen
        THEN SubSeq(safe_name, 1, MaxFilenameLen)
        ELSE safe_name

\* the characters file names are made of
FilenameChars == {"a", "?", " ", "."}

\* the file names of at most n characters
Filenames(n) == UNION {[1..k -> FilenameChars] : k \in 0..n}

\* the file names sanitized: short ones, and ones around the length limit
FilenameInputs ==
    { prefix \o [i \in 1..n |-> pad] :
        prefix \in Filenames(MaxPrefixLen),
        n \in {0, MaxFilenameLen - 1, MaxFilenameLen, MaxFilenameLen + 1},
        pad \in {"b", "|"} }

InitSanitize ==
    /\ \E filename \in FilenameInputs :
           ret = Return("input", <<>>, filename, "none", "none", "none")
    /\ calls_left = MaxSanitizeCalls
    /\ metadata = DefaultMetadata
    /\ disk = [state |-> "absent", data |-> DefaultMetadata]
    /\ files = <<>>
    /\ dirs = {}
    /\ pc = Idle
    /\ faults_left = 0

\* ListRepository._sanitize_filename applied to the last result
sanitize_filename ==
    /\ CallStart
    /\ ret' = Return("ListRepository._sanitize_filename", <<ret.val>>,
                     SanitizeFilename(ret.val), "none", "none", "none")
    /\ UNCHANGED <<metadata, disk, files, dirs, pc, faults_left>>

\* SimpleCollectionManager._sanitize_filename applied to the last result
scm_sanitize_filename ==
    /\ CallStart
    /\ ret' = Return("SimpleCollectionManager._sanitize_filename", <<ret.val>>,
                     SCM_SanitizeFilename(ret.val), "none", "none", "none")
    /\ UNCHANGED <<metadata, disk, files, dirs, pc, faults_left>>

NextSanitize ==
    \/ sanitize_filename
    \/ scm_sanitize_filename

SpecSanitize == InitSanitize /\ [][NextSanitize]_vars

----------------------------------------------------------------------------
(* The list codec (src/utils/album_list_manager.py) as functions of their  *)
(* inputs.  Text is a sequence of one-character strings where the code     *)
(* parses or formats it (dates, rank keys); a JSON value whose type the    *)
(* code depends on is a record [type, v].                                  *)

DigitChars == <<"0", "1", "2", "3", "4", "5", "6", "7", "8", "9">>

IsDigit(c) == \E i \in 1..Len(DigitChars) : DigitChars[i] = c

DigitValue(c) == (CHOOSE i \in 1..Len(DigitChars) : DigitChars[i] = c) - 1

\* str(n) for n >= 0
RECURSIVE Str(_)
Str(n) == IF n < 10 THEN <<DigitChars[n + 1]>>
          ELSE Str(n \div 10) \o <<DigitChars[(n % 10) + 1]>>

\* n formatted with at least width digits, as %04d and %02d do
RECURSIVE Pad(_, _)
Pad(chars, width) == IF Len(chars) >= width THEN chars ELSE Pad(<<"0">> \o chars, width)

\* int(chars) for a text made of digits
RECURSIVE IntOf(_)
IntOf(chars) == IF chars = <<>> THEN 0
                ELSE 10 * IntOf(SubSeq(chars, 1, Len(chars) - 1))
                     + DigitValue(chars[Len(chars)])

\* the number of digits of the largest C int, 2147483647: date(..) raises
\* OverflowError for an argument of more digits (leading zeros aside)
MaxCIntDigits == 10

\* s.split(sep)
RECURSIVE Split(_, _)
Split(s, sep) ==
    IF \A i \in 1..Len(s) : s[i] # sep THEN <<s>>
    ELSE LET k == CHOOSE i \in 1..Len(s) :
                      s[i] = sep /\ \A h \in 1..(i - 1) : s[h] # sep
         IN  <<SubSeq(s, 1, k - 1)>> \o Split(SubSeq(s, k + 1, Len(s)), sep)

\* JSON values
JStr(chars) == [type |-> "str", v |-> chars]

JNull == [type |-> "null", v |-> <<>>]

JNumber(digits) == [type |-> "number", v |-> digits]

\* dates: datetime.date(year, month, day)
Date(y, m, d) == [y |-> y, m |-> m, d |-> d]

\* an Album whose release_date is None
NoDate == Date(0, 0, 0)

\* date.today()
Today == Date(2026, 11, 1)

IsLeap(y) == (y % 4 = 0 /\ y % 100 # 0) \/ y % 400 = 0

DaysInMonth(y, m) ==
    IF m = 2 THEN (IF IsLeap(y) THEN 29 ELSE 28)
    ELSE IF m \in {4, 6, 9, 11} THEN 30 ELSE 31

\* the dates datetime.date accepts
ValidDate(y, m, d) ==
    /\ y \in 1..9999
    /\ m \in 1..12
    /\ d \in 1..DaysInMonth(y, m)

\* date.isoformat()
IsoFormat(date) ==
    Pad(Str(date.y), 4) \o <<"-">> \o Pad(Str(date.m), 2) \o <<"-">> \o Pad(Str(date.d), 2)

\* the result of parsing a date: a date, or the exception raised
Parsed(date) == [raised |-> "none", date |-> date]

Raised(exception) == [raised |-> exception, date |-> NoDate]

\* date.fromisoformat(value), for the extended format YYYY-MM-DD
FromIsoFormat(value) ==
    IF value.type # "str" THEN Raised("TypeError")
    ELSE LET s == value.v
         IN  IF /\ Len(s) = 10
                /\ s[5] = "-"
                /\ s[8] = "-"
                /\ \A i \in {1, 2, 3, 4, 6, 7, 9, 10} : IsDigit(s[i])
             THEN LET y == IntOf(SubSeq(s, 1, 4))
                      m == IntOf(SubSeq(s, 6, 7))
                      d == IntOf(SubSeq(s, 9, 10))
                  IN  IF ValidDate(y, m, d) THEN Parsed(Date(y, m, d))
                      ELSE Raised("ValueError")
             ELSE Raised("ValueError")

\* import_from_new_format: the release date of an entry; ValueError falls
\* back to today, as does a value that is false (null, "", 0)
NewFormatDate(value) ==
    IF value.type = "null" \/ value.v = <<>> \/ (value.type = "number" /\ IntOf(value.v) = 0)
    THEN Parsed(Today)
    ELSE LET r == FromIsoFormat(value)
         IN  IF r.raised = "ValueError" THEN Parsed(Today) ELSE r

\* day, month, year = map(int, release_date_str.split('-')); date(year, month, day)
FromDayMonthYear(value) ==
    IF value.type # "str" THEN Raised("AttributeError")
    ELSE LET parts == Split(value.v, "-")
         IN  IF Len(parts) # 3 THEN Raised("ValueError")
             ELSE IF \E i \in 1..3 :
                        parts[i] = <<>> \/ \E k \in 1..Len(parts[i]) : ~IsDigit(parts[i][k])
             THEN Raised("ValueError")
             ELSE IF \E i \in 1..3 : Len(parts[i]) > MaxCIntDigits
             THEN Raised("OverflowError")
             ELSE LET d == IntOf(parts[1])
                      m == IntOf(parts[2])
                      y == IntOf(parts[3])
                  IN  IF ValidDate(y, m, d) THEN Parsed(Date(y, m, d))
                      ELSE Raised("ValueError")

\* import_from_old_format: the release date of an entry; ValueError and
\* AttributeError fall back to today
OldFormatDate(value) ==
    LET r == FromDayMonthYear(value)
    IN  IF r.raised \in {"ValueError", "AttributeError"} THEN Parsed(Today) ELSE r

\* dict.get(key, default)
Get(dict, key, default) == IF key \in DOMAIN dict THEN dict[key] ELSE default

\* a dict without any of the keys the codec looks up
NoKeys == [other |-> ""]

\* the ranks of the default points table
DefaultTableRanks == 60

\* the points of rank 1 in the default table, plus one: max(1, 61 - i)
DefaultTableTop == 61

Max(a, b) == IF a >= b THEN a ELSE b

\* _load_points_mapping's default mapping, used when points.json cannot be
\* loaded: {str(i): max(1, 61-i) for i in range(1, 61)}
DefaultPointsMapping ==
    [key \in {Str(i) : i \in 1..DefaultTableRanks} |->
        Max(1, DefaultTableTop - IntOf(key))]

\* the points export_to_new_format gives a rank outside the table
FloorPoints == 1

\* export_to_new_format giving no points to a rank outside the table
PointsFor_NoFloor(points_mapping, rank) == Get(points_mapping, Str(rank), 0)

\* export_to_new_format: points_mapping.get(str(rank), 1)
PointsFor(points_mapping, rank) == Get(points_mapping, Str(rank), FloorPoints)

\* export_to_new_format numbering the albums from 0
RankOf_ZeroBased(idx) == idx

\* export_to_new_format: the rank of the album at the 0-based position idx
RankOf(idx) == idx + 1

\* the parameters of Album.__init__ (models/album.py)
AlbumParams ==
    {"artist", "name", "release_date", "genre1", "genre2", "comment", "cover_image"}

\* the keywords both decoders call Album(..) with
DecoderKeywords ==
    AlbumParams \cup {"cover_image_data", "cover_image_format"}

\* Album(**keywords): TypeError for a keyword Album.__init__ does not have
AlbumInitRaises(keywords) ==
    IF keywords \subseteq AlbumParams THEN "none" ELSE "TypeError"

\* an Album object: the attributes __init__ sets, and attrs, the attributes
\* set on the object afterwards (cover_image_data, cover_image_format,
\* album_id, country)
Album(artist, name, release_date, attrs) ==
    [artist |-> artist, name |-> name, release_date |-> release_date,
     genre1 |-> "g1", genre2 |-> "", comment |-> "c", attrs |-> attrs]

\* export_to_new_format: the entry written for the album at position idx
AlbumData(album, idx, points_mapping) ==
    [artist |-> album.artist,
     title |-> album.name,
     release_date |-> IF album.release_date # NoDate
                      THEN JStr(IsoFormat(album.release_date)) ELSE JNull,
     genre1 |-> album.genre1,
     genre2 |-> album.genre2,
     comment |-> album.comment,
     cover_image_data |-> album.attrs["cover_image_data"],
     cover_image_format |-> album.attrs["cover_image_format"],
     rank |-> RankOf(idx),
     points |-> PointsFor(points_mapping, RankOf(idx)),
     album_id |-> Get(album.attrs, "album_id", ""),
     country |-> Get(album.attrs, "country", "")]

\* export_to_new_format writing the album_count of the metadata it is given
ExportedAlbumCount_Trusted(albums, list_metadata) == Get(list_metadata, "album_count", Len(albums))

\* export_to_new_format: the album_count it writes
ExportedAlbumCount(albums, list_metadata) == Len(albums)

\* export_to_new_format: the document it builds
ExportData(albums, list_metadata, points_mapping) ==
    [format_version |-> 1,
     metadata |-> [title |-> Get(list_metadata, "title", "My Album List"),
                   description |-> Get(list_metadata, "description", ""),
                   date_created |-> Get(list_metadata, "date_created", "now"),
                   date_modified |-> "now",
                   album_count |-> ExportedAlbumCount(albums, list_metadata)],
     albums |-> [i \in 1..Len(albums) |-> AlbumData(albums[i], i - 1, points_mapping)]]

\* export_to_new_format: AttributeError while the document is built, for an
\* album without the attributes cover_image_data and cover_image_format;
\* ExportError when json.dump meets a value that is not JSON (cover bytes)
ExportRaises(albums) ==
    IF \E i \in 1..Len(albums) :
           ~({"cover_image_data", "cover_image_format"} \subseteq DOMAIN albums[i].attrs)
    THEN "AttributeError"
    ELSE IF \E i \in 1..Len(albums) : albums[i].attrs["cover_image_data"] = "bytes"
    THEN "ExportError"
    ELSE "none"

\* what a decoder returns or raises
Decoded(albums, list_metadata) ==
    [raised |-> "none", cause |-> "none", albums |-> albums, metadata |-> list_metadata]

DecodeFailed(cause) ==
    [raised |-> "ImportError", cause |-> cause, albums |-> <<>>, metadata |-> NoKeys]

\* the first exception among the entries of a list, "none" without one
RECURSIVE FirstRaised(_)
FirstRaised(raised) ==
    IF raised = <<>> THEN "none"
    ELSE IF Head(raised) # "none" THEN Head(raised)
    ELSE FirstRaised(Tail(raised))

\* import_from_new_format: what one entry raises: the date is parsed, then
\* Album(..) is called
NewEntryRaises(album_data) ==
    LET r == NewFormatDate(album_data.release_date)
    IN  IF r.raised # "none" THEN r.raised ELSE AlbumInitRaises(DecoderKeywords)

\* import_from_new_format: the album of one entry
NewEntryAlbum(album_data) ==
    Album(album_data.artist, album_data.title,
          NewFormatDate(album_data.release_date).date,
          [cover_image_data |-> album_data.cover_image_data,
           cover_image_format |-> album_data.cover_image_format,
           album_id |-> album_data.album_id,
           country |-> album_data.country,
           rank |-> album_data.rank,
           points |-> album_data.points])

\* import_from_new_format on a file: content.kind is "absent", "garbage"
\* (no JSON), "array" or "object"
import_from_new_format(content) ==
    IF content.kind # "object"
    THEN DecodeFailed(CASE content.kind = "absent" -> "FileNotFoundError"
                        [] content.kind = "garbage" -> "JSONDecodeError"
                        [] OTHER -> "AttributeError")
    ELSE LET entries == content.data.albums
             raised == FirstRaised([i \in 1..Len(entries) |-> NewEntryRaises(entries[i])])
         IN  IF raised # "none" THEN DecodeFailed(raised)
             ELSE Decoded([i \in 1..Len(entries) |-> NewEntryAlbum(entries[i])],
                          content.data.metadata)

\* import_from_old_format: what one entry raises
OldEntryRaises(album_data) ==
    LET r == OldFormatDate(album_data.release_date)
    IN  IF r.raised # "none" THEN r.raised ELSE AlbumInitRaises(DecoderKeywords)

\* import_from_old_format: the album of one entry
OldEntryAlbum(album_data, idx) ==
    Album(album_data.artist, album_data.album,
          OldFormatDate(album_data.release_date).date,
          [cover_image_data |-> "null",
           cover_image_format |-> "PNG",
           album_id |-> "",
           country |-> "",
           rank |-> idx + 1])

\* import_from_old_format on a file
import_from_old_format(content) ==
    IF content.kind # "array"
    THEN DecodeFailed(CASE content.kind = "absent" -> "FileNotFoundError"
                        [] content.kind = "garbage" -> "JSONDecodeError"
                        [] OTHER -> "AttributeError")
    ELSE LET entries == content.data.albums
             raised == FirstRaised([i \in 1..Len(entries) |-> OldEntryRaises(entries[i])])
         IN  IF raised # "none" THEN DecodeFailed(raised)
             ELSE Decoded([i \in 1..Len(entries) |-> OldEntryAlbum(entries[i], i - 1)],
                          [title |-> "stem", album_count |-> Len(entries)])

----------------------------------------------------------------------------
(* The codec specification: it starts from the arguments of an export, or  *)
(* from a list file made by hand, and applies export_to_new_format,        *)
(* import_from_new_format and import_from_old_format.  Here a file holds   *)
(* its JSON document: [kind, data].                                        *)

MaxAlbums == 3

MaxCodecCalls == 2

\* the ranks past the default points table that exported lists reach
MaxBeyondTable == 2

\* the attributes set on an Album that carries no cover
NoCover == [cover_image_data |-> "null", cover_image_format |-> "null"]

\* Album objects: with the cover attributes set (one with a cover and the
\* extra fields, one without a release date), as Album(..) leaves them, and
\* with cover data that is bytes
AlbumA == Album("A", "N", Date(2020, 1, 2), NoCover)

AlbumB ==
    Album("B", "M", Date(1999, 12, 31),
          [cover_image_data |-> "iVBORw0KGgo=", cover_image_format |-> "PNG",
           album_id |-> "id", country |-> "NO"])

AlbumUndated == Album("C", "K", NoDate, NoCover)

AlbumPlain == Album("P", "Q", Date(2020, 1, 2), NoKeys)

AlbumBytes ==
    Album("D", "R", Date(2020, 1, 2),
          [cover_image_data |-> "bytes", cover_image_format |-> "PNG"])

\* the lists exported: the short lists of albums that have their cover
\* attributes, the two lists export_to_new_format cannot write, and lists
\* about as long as the default points table
AlbumLists ==
    UNION {[1..n -> {AlbumA, AlbumB, AlbumUndated}] : n \in 0..MaxAlbums}
    \cup {<<AlbumPlain>>, <<AlbumA, AlbumBytes>>}
    \cup {[i \in 1..n |-> AlbumA] :
            n \in (DefaultTableRanks - 1)..(DefaultTableRanks + MaxBeyondTable)}

\* the metadata exported with them: with a stale album_count, without one,
\* and without any key
ListMetadatas ==
    {[title |-> "t", album_count |-> 7], [title |-> "t", date_created |-> "then"], NoKeys}

\* a points table loaded from resources/points.json, which is not among the
\* sources: a mapping from ranks to descending points, as the specification
\* describes it
LoadedPointsMapping == (Str(1) :> 3) @@ (Str(2) :> 2)

\* _load_points_mapping: the loaded table, or the default table when loading
\* fails
PointsMappings == {DefaultPointsMapping, LoadedPointsMapping}

\* release dates in list files made by hand: well-formed and not, for the
\* current format
NewDates ==
    {JStr(IsoFormat(Date(2020, 1, 2))), JStr(IsoFormat(Date(2020, 2, 30))),
     JStr(<<"x">>), JStr(<<>>), JNull, JNumber(Str(2020))}

\* and for the legacy format (day-month-year); a missing release_date reads
\* as ''
OldDates ==
    {JStr(Str(2) \o <<"-">> \o Str(1) \o <<"-">> \o Str(2020)),
     JStr(Str(31) \o <<"-">> \o Str(2) \o <<"-">> \o Str(2020)),
     JStr(Str(1) \o <<"-">> \o Str(2)),
     JStr(<<"x", "-", "y", "-", "z">>),
     JStr(<<>>), JNull, JNumber(Str(2020)),
     JStr(Str(1) \o <<"-">> \o Str(1) \o <<"-">> \o [i \in 1..(MaxCIntDigits + 1) |-> "9"])}

\* an entry of a current-format file
NewEntry(release_date) ==
    [artist |-> "A", title |-> "N", release_date |-> release_date,
     genre1 |-> "g1", genre2 |-> "", comment |-> "c",
     cover_image_data |-> "null", cover_image_format |-> "null",
     rank |-> 1, points |-> 1, album_id |-> "", country |-> ""]

\* an entry of a legacy file
OldEntry(release_date) ==
    [artist |-> "A", album |-> "N", release_date |-> release_date]

\* the document of a file that holds none
NoData == [format_version |-> 0, metadata |-> NoKeys, albums |-> <<>>]

Absent == [kind |-> "absent", data |-> NoData]

\* the list files made by hand: no file, a file that is no JSON, a file of
\* the other format, and lists of no, one and two entries (the entries of a
\* JSON array are kept in data.albums)
NewFiles ==
    {Absent, [kind |-> "garbage", data |-> NoData], [kind |-> "array", data |-> NoData]}
    \cup {[kind |-> "object",
           data |-> [format_version |-> 1, metadata |-> [title |-> "t", album_count |-> 7],
                     albums |-> entries]] :
            entries \in {<<>>} \cup {<<NewEntry(v)>> : v \in NewDates}
                       \cup {<<NewEntry(JStr(IsoFormat(Date(2020, 1, 2)))), NewEntry(v)>> :
                               v \in NewDates}}

OldFiles ==
    {Absent, [kind |-> "garbage", data |-> NoData],
     [kind |-> "object", data |-> [NoData EXCEPT !.format_version = 1]]}
    \cup {[kind |-> "array", data |-> [NoData EXCEPT !.albums = entries]] :
            entries \in {<<>>} \cup {<<OldEntry(v)>> : v \in OldDates}
                       \cup {<<OldEntry(v), OldEntry(JStr(<<>>))>> : v \in OldDates}}

\* what the file at file_path holds
Content(fs, file_path) == IF file_path \in DOMAIN fs THEN fs[file_path] ELSE Absent

\* export_to_new_format(albums, metadata, ListA)
export_to_new_format ==
    /\ CallStart
    /\ ret.args # <<>>
    /\ LET albums == ret.args[1]
           raised == ExportRaises(albums)
       IN  /\ files' =
                CASE raised = "none" ->
                        (ListA :> [kind |-> "object",
                                   data |-> ExportData(albums, ret.args[2], ret.args[3])])
                  [] raised = "ExportError" ->
                        (ListA :> [kind |-> "garbage", data |-> NoData])
                  [] OTHER -> files
           /\ ret' = Return("export_to_new_format", ret.args,
                            IF raised = "none" THEN "None" ELSE raised,
                            "none", "none", "none")
    /\ UNCHANGED <<metadata, disk, dirs, pc, faults_left>>

\* import_from_new_format(ListA)
import_new ==
    /\ CallStart
    /\ ret' = Return("import_from_new_format", ret.args,
                     import_from_new_format(Content(files, ListA)),
                     "none", "none", "none")
    /\ UNCHANGED <<metadata, disk, files, dirs, pc, faults_left>>

\* import_from_old_format(ExtJson)
import_old ==
    /\ CallStart
    /\ ret' = Return("import_from_old_format", ret.args,
                     import_from_old_format(Content(files, ExtJson)),
                     "none", "none", "none")
    /\ UNCHANGED <<metadata, disk, files, dirs, pc, faults_left>>

\* SimpleCollectionManager.collections_dir and its default collection
collections_dir == <<"C">>

ScmDefaultCollection == <<"D", "e", "f", "a", "u", "l", "t">>

\* the characters of the title save_album_list names the file after: the
\* title of the metadata, "Untitled" without one
ScmTitle(list_metadata) ==
    IF "title" \in DOMAIN list_metadata THEN <<"t">>
    ELSE <<"U", "n", "t", "i", "t", "l", "e", "d">>

\* SimpleCollectionManager.save_album_list: the path of the file it writes
\* when it is given neither a collection nor a file name
ScmSavePath(list_metadata) ==
    Join(Join(collections_dir, ScmDefaultCollection),
         SCM_SanitizeFilename(ScmTitle(list_metadata)) \o SUSH)

\* SimpleCollectionManager._album_to_dict
ScmAlbumToDict(album) ==
    [artist |-> album.artist,
     name |-> album.name,
     release_date |-> JStr(IsoFormat(album.release_date)),
     genre1 |-> album.genre1,
     genre2 |-> album.genre2,
     comment |-> album.comment,
     cover_image_data |-> Get(album.attrs, "cover_image_data", "null"),
     cover_image_format |-> Get(album.attrs, "cover_image_format", "null")]

\* save_album_list: the document it writes, with the minimal metadata
ScmSavedData(albums, list_metadata) ==
    [metadata |-> [title |-> Get(list_metadata, "title", "Untitled"),
                   collection |-> Get(list_metadata, "collection", "Default"),
                   date_modified |-> "now"],
     albums |-> [i \in 1..Len(albums) |-> ScmAlbumToDict(albums[i])]]

\* save_album_list: what it re-raises, after open(.., "w") emptied the file:
\* AttributeError from release_date.isoformat() of an album without a date,
\* TypeError from json.dump for cover bytes
ScmSaveRaises(albums) ==
    IF \E i \in 1..Len(albums) : albums[i].release_date = NoDate
    THEN "AttributeError"
    ELSE IF \E i \in 1..Len(albums) :
                Get(albums[i].attrs, "cover_image_data", "null") = "bytes"
    THEN "TypeError"
    ELSE "none"

\* SimpleCollectionManager.save_album_list(albums, metadata); here metadata
\* and disk are the recent_lists of that store and its metadata file.  It
\* returns the path of the file, ScmSavePath, written "file_path"
save_album_list ==
    /\ CallStart
    /\ ret.args # <<>>
    /\ LET albums == ret.args[1]
           file_path == ScmSavePath(ret.args[2])
           raised == ScmSaveRaises(albums)
       IN  /\ dirs' = dirs \cup {ScmDefaultCollection}
           /\ files' =
                (file_path :> (IF raised = "none"
                               THEN [kind |-> "object",
                                     data |-> ScmSavedData(albums, ret.args[2])]
                               ELSE [kind |-> "garbage", data |-> NoData])) @@ files
           /\ IF raised = "none"
              THEN \E w \in WriteOutcomes :
                     /\ FaultsLeft(Cost(w))
                     /\ RecordRecent(file_path, w)
                     /\ faults_left' = faults_left - Cost(w)
              ELSE UNCHANGED <<metadata, disk, faults_left>>
           /\ ret' = Return("save_album_list", ret.args,
                            IF raised = "none" THEN "file_path" ELSE raised,
                            "none", "none", "none")
    /\ UNCHANGED pc

\* the files when a list without albums was saved before under the same
\* title with save_album_list
EarlierSave(list_metadata) ==
    ScmSavePath(list_metadata) :>
        [kind |-> "object", data |-> ScmSavedData(<<>>, list_metadata)]

InitCodec ==
    /\ \/ \E albums \in AlbumLists, list_metadata \in ListMetadatas,
             points_mapping \in PointsMappings :
               /\ ret = Return("input", <<albums, list_metadata, points_mapping>>,
                               "None", "none", "none", "none")
               /\ files \in {<<>>, EarlierSave(list_metadata)}
       \/ \E new \in NewFiles, old \in {Absent} :
               /\ ret = Return("input", <<>>, "None", "none", "none", "none")
               /\ files = (ListA :> new) @@ (ExtJson :> old)
       \/ \E new \in {Absent}, old \in OldFiles :
               /\ ret = Return("input", <<>>, "None", "none", "none", "none")
               /\ files = (ListA :> new) @@ (ExtJson :> old)
    /\ calls_left = MaxCodecCalls
    /\ metadata = DefaultMetadata
    /\ disk = [state |-> "absent", data |-> DefaultMetadata]
    /\ dirs = {}
    /\ pc = Idle
    /\ faults_left = 0

NextCodec ==
    \/ export_to_new_format
    \/ import_new
    \/ import_old
    \/ save_album_list

SpecCodec == InitCodec /\ [][NextCodec]_vars

----------------------------------------------------------------------------
(* Importing external lists: import_external_list on the files outside the *)
(* repository, with the faults of the export and of the sidecar write.     *)

MaxImportCalls == 3

\* more files outside the repository: a legacy list with an album, a list of
\* the current format without albums and without a title, and a path that
\* no file has
ExtJsonFull == <<"y">> \o JSON

ExtSush == <<"z">> \o SUSH

ExtMissing == <<"m">> \o SUSH

ImportPaths == {ExtJson, ExtJsonFull, ExtSush, ExtTxt, ExtMissing}

ImportFiles ==
    ExternalFiles @@ (ExtJsonFull :> "legacy") @@ (ExtSush :> "current_empty")

\* the title of the metadata a decoder returns for the external file: the
\* stem of the path from import_from_old_format; from import_from_new_format
\* the metadata of the file, which holds no title here, so that
\* import_external_list falls back to os.path.basename(external_path)
ImportedTitle(external_path) ==
    IF EndsWith(external_path, JSON)
    THEN SubSeq(external_path, 1, Len(external_path) - Len(JSON))
    ELSE external_path

\* import_external_list: the path save_list writes the imported list to
ImportPath(external_path) ==
    SavePath([file_name |-> ImportedTitle(external_path), has_title |-> TRUE,
              title |-> ImportedTitle(external_path), albums |-> 0])

\* import_external_list(external_path): the decode by extension; then
\* save_list, that is export_to_new_format and add_list_to_recent; every
\* exception gives None.  Only a list without albums gets past the decoders
import_external_list(external_path) ==
    /\ CallStart
    /\ LET loaded == LoadResult(files, external_path)
           new_path == ImportPath(external_path)
       IN  IF loaded # "ok"
           THEN /\ ret' = Return("import_external_list", <<external_path>>, "None",
                                 "none", "none", loaded)
                /\ UNCHANGED <<metadata, disk, files, faults_left>>
           ELSE \E e \in ExportOutcomes, w \in WriteOutcomes :
                   /\ e # "ok" => w = "ok"
                   /\ FaultsLeft(Cost(e) + Cost(w))
                   /\ files' = FilesAfterExport(files, new_path, Written(0), e)
                   /\ faults_left' = faults_left - (Cost(e) + Cost(w))
                   /\ IF e = "ok"
                      THEN /\ RecordRecent(new_path, w)
                           /\ ret' = Return("import_external_list",
                                            <<external_path, new_path>>, "path",
                                            w, e, loaded)
                      ELSE /\ UNCHANGED <<metadata, disk>>
                           /\ ret' = Return("import_external_list",
                                            <<external_path, new_path>>, "None",
                                            "none", e, loaded)
    /\ UNCHANGED <<dirs, pc>>

InitImport ==
    /\ disk = InitDisk([state |-> "absent", data |-> DefaultMetadata], "ok")
    /\ metadata = InitMetadata([state |-> "absent", data |-> DefaultMetadata])
    /\ files = ImportFiles
    /\ dirs = {}
    /\ pc = Idle
    /\ ret = Return("__init__", <<>>, "None", "ok", "none", "none")
    /\ calls_left = MaxImportCalls
    /\ faults_left = MaxFaults

NextImport ==
    \/ \E p \in ImportPaths : import_external_list(p)
    \/ \E p \in ImportPaths : load_list(p)

SpecImport == InitImport /\ [][NextImport]_vars

----------------------------------------------------------------------------
(* The first-run migration: migrate_existing_lists sweeps the recent files *)
(* of the configuration into the Default collection of the                 *)
(* SimpleCollectionManager.  Here metadata and disk are the metadata of    *)
(* that store, ret.val is imported_count and ret.via the record of what    *)
(* happened to each path.                                                  *)

MaxMigrateFiles == 3

\* the recent files of the configuration: two lists of the current format
\* without albums, one with an album, a legacy array, a file that is no
\* JSON, a file under another extension, and a path without a file
MigEmpty == <<"p">> \o SUSH

MigEmptyJson == <<"q">> \o JSON

MigFull == <<"c">> \o SUSH

MigLegacy == <<"o">> \o JSON

MigGarbage == <<"g">> \o SUSH

MigratePaths == {MigEmpty, MigEmptyJson, MigFull, MigLegacy, MigGarbage, ExtTxt, ExtMissing}

MigrateFiles ==
    (MigEmpty :> "current_empty") @@ (MigEmptyJson :> "current_empty")
    @@ (MigFull :> "current") @@ (MigLegacy :> "legacy")
    @@ (MigGarbage :> "garbage") @@ (ExtTxt :> "legacy")

\* config.get_recent_files()
RecentFiles == UNION {[1..n -> MigratePaths] : n \in 0..MaxMigrateFiles}

\* Path(file_path).stem
Stem(file_path) ==
    IF EndsWith(file_path, SUSH) \/ EndsWith(file_path, JSON)
    THEN SubSeq(file_path, 1, Len(file_path) - Len(SUSH))
    ELSE file_path

\* the file save_album_list(albums, {"title": title}, "Default") writes for
\* a list without a title of its own: the title is the stem
MigratePath(file_path) ==
    Join(Join(collections_dir, ScmDefaultCollection),
         SCM_SanitizeFilename(Stem(file_path)) \o SUSH)

\* what reading a file of the sweep raises before save_album_list is called:
\* json.load on a file that is no JSON, data.get on a legacy array, and
\* Album(.., cover_image_data=..) for the first album of a list
MigrateReadRaises(content) ==
    CASE content = "garbage" -> "JSONDecodeError"
      [] content \in {"legacy", "legacy_empty"} -> "AttributeError"
      [] content = "current" -> "TypeError"
      [] OTHER -> "none"

\* save_album_list ends in one of these ways
ScmSaveOutcomes == {"ok", "open_error", "write_error"}

\* the sweep stopping at the first file that fails
ContinuesAfter_Abort(outcome) == outcome # "failed"

\* the except clauses of the loop body: the sweep goes on after any outcome
ContinuesAfter(outcome) == TRUE

\* migrate_existing_lists is called: imported_count = 0
migrate_start ==
    /\ CallStart
    /\ ret.op = "input"
    /\ pc' = [at |-> "migrate", path |-> ret.args[1]]
    /\ ret' = Return("migrate_existing_lists", ret.args, 0, "none", "none", <<>>)
    /\ UNCHANGED <<metadata, disk, files, dirs, faults_left>>

\* one turn of the loop, for the next path; open() of a file that exists may
\* fail (the file is unreadable), as may the save
migrate_file ==
    /\ pc.at = "migrate"
    /\ pc.path # <<>>
    /\ LET file_path == Head(pc.path)
           Turn(outcome, count) ==
               /\ pc' = [pc EXCEPT !.path = IF ContinuesAfter(outcome)
                                            THEN Tail(pc.path) ELSE <<>>]
               /\ ret' = [ret EXCEPT !.val = count,
                                     !.via = Append(ret.via, <<file_path, outcome>>)]
       IN  IF file_path \notin DOMAIN files
           THEN /\ Turn("skipped", ret.val)
                /\ UNCHANGED <<metadata, disk, files, dirs, faults_left>>
           ELSE IF ~(EndsWith(file_path, JSON) \/ EndsWith(file_path, SUSH))
           THEN /\ Turn("ignored", ret.val)
                /\ UNCHANGED <<metadata, disk, files, dirs, faults_left>>
           ELSE IF MigrateReadRaises(files[file_path]) # "none"
           THEN /\ Turn("failed", ret.val)
                /\ UNCHANGED <<metadata, disk, files, dirs, faults_left>>
           ELSE
             \/ /\ FaultsLeft(1)
                /\ faults_left' = faults_left - 1
                /\ Turn("failed", ret.val)
                /\ UNCHANGED <<metadata, disk, files, dirs>>
             \/ \E e \in ScmSaveOutcomes, w \in WriteOutcomes :
                   /\ e # "ok" => w = "ok"
                   /\ FaultsLeft(Cost(e) + Cost(w))
                   /\ faults_left' = faults_left - (Cost(e) + Cost(w))
                   /\ dirs' = dirs \cup {ScmDefaultCollection}
                   /\ files' = FilesAfterExport(files, MigratePath(file_path),
                                                Written(0), e)
                   /\ IF e = "ok"
                      THEN /\ RecordRecent(MigratePath(file_path), w)
                           /\ Turn("saved", ret.val + 1)
                      ELSE /\ UNCHANGED <<metadata, disk>>
                           /\ Turn("failed", ret.val)
    /\ UNCHANGED calls_left

\* the loop is over: the result is shown
migrate_end ==
    /\ pc.at = "migrate"
    /\ pc.path = <<>>
    /\ pc' = Idle
    /\ ret' = [ret EXCEPT !.saved = "done"]
    /\ UNCHANGED <<metadata, disk, files, dirs, calls_left, faults_left>>

InitMigrate ==
    /\ \E recent_files \in RecentFiles :
           ret = Return("input", <<recent_files>>, 0, "none", "none", <<>>)
    /\ files = MigrateFiles
    /\ metadata = DefaultMetadata
    /\ disk = [state |-> "absent", data |-> DefaultMetadata]
    /\ dirs = {}
    /\ pc = Idle
    /\ calls_left = 1
    /\ faults_left = MaxFaults

NextMigrate ==
    \/ migrate_start
    \/ migrate_file
    \/ migrate_end

SpecMigrate == InitMigrate /\ [][NextMigrate]_vars

----------------------------------------------------------------------------
(* Two repositories on one directory: two ListRepository objects, each     *)
(* with the metadata it loaded when it was constructed.  Here metadata is  *)
(* a function from the instance to its self.metadata; disk is the one      *)
(* metadata.json.                                                          *)

MaxInstanceCalls == 3

Instances == {"A", "B"}

\* _save_metadata merging what it writes with what the file holds
Persisted_Merged(md, d) ==
    LET on_disk == LoadMetadata(d)
        Merged(mine, theirs) ==
            mine \o SelectSeq(theirs, LAMBDA x : ~InSeq(x, mine))
    IN  [recent_lists   |-> Merged(md.recent_lists, on_disk.recent_lists),
         favorite_lists |-> Merged(md.favorite_lists, on_disk.favorite_lists),
         collections    |-> [c \in DOMAIN md.collections \cup DOMAIN on_disk.collections |->
                                IF c \in DOMAIN md.collections THEN md.collections[c]
                                ELSE on_disk.collections[c]]]

\* _save_metadata: json.dump(self.metadata, f): what the file holds after a
\* write is the metadata of the instance that wrote
Persisted(md, d) == md

\* a call of the instance that changes its metadata to md and saves it
InstancePersists(instance, op, args, md) ==
    /\ CallStart
    /\ \E w \in WriteOutcomes :
        /\ FaultsLeft(Cost(w))
        /\ metadata' = [metadata EXCEPT ![instance] = md]
        /\ disk' = SaveMetadata(Persisted(md, disk), disk, w)
        /\ faults_left' = faults_left - Cost(w)
        /\ ret' = Return(op, <<instance>> \o args, "None", w, "none", "none")
    /\ UNCHANGED <<files, pc>>

\* instance.add_list_to_recent(file_path)
instance_add_list_to_recent(instance, file_path) ==
    /\ InstancePersists(instance, "add_list_to_recent", <<file_path>>,
                        [metadata[instance] EXCEPT
                            !.recent_lists = RecentAfterAdd(@, file_path)])
    /\ UNCHANGED dirs

\* instance.toggle_favorite(file_path)
instance_toggle_favorite(instance, file_path) ==
    /\ InstancePersists(instance, "toggle_favorite", <<file_path>>,
                        [metadata[instance] EXCEPT !.favorite_lists =
                            IF InSeq(file_path, @) THEN ListRemove(@, file_path)
                            ELSE Append(@, file_path)])
    /\ UNCHANGED dirs

\* instance.create_collection(collection_name), for a name that is no
\* collection of the instance
instance_create_collection(instance, collection_name) ==
    /\ CreatesCollection(metadata[instance].collections, collection_name)
    /\ InstancePersists(instance, "create_collection", <<collection_name>>,
                        [metadata[instance] EXCEPT
                            !.collections = DictSet(@, collection_name, <<>>)])
    /\ dirs' = dirs \cup {collection_name}

\* the instance is constructed again: it loads what the file holds
instance_init(instance) ==
    /\ CallStart
    /\ DOMAIN LoadMetadata(disk).collections # {}
    /\ metadata' = [metadata EXCEPT ![instance] = InitMetadata(disk)]
    /\ ret' = Return("__init__", <<instance>>, "None", "none", "none", "none")
    /\ UNCHANGED <<disk, files, dirs, pc, faults_left>>

InitInstances ==
    /\ disk = InitDisk([state |-> "absent", data |-> DefaultMetadata], "ok")
    /\ metadata = [instance \in Instances |-> InitMetadata(disk)]
    /\ files = ExternalFiles
    /\ dirs = {}
    /\ pc = Idle
    /\ ret = Return("__init__", <<"B">>, "None", "none", "none", "none")
    /\ calls_left = MaxInstanceCalls
    /\ faults_left = MaxFaults

NextInstances ==
    \/ \E i \in Instances, p \in Paths : instance_add_list_to_recent(i, p)
    \/ \E i \in Instances, p \in Paths : instance_toggle_favorite(i, p)
    \/ \E i \in Instances, c \in NewNames : instance_create_collection(i, c)
    \/ \E i \in Instances : instance_init(i)

SpecInstances == InitInstances /\ [][NextInstances]_vars

----------------------------------------------------------------------------
(* The queries as calls: get_recent_lists and get_favorite_lists on a      *)
(* repository whose sidecar holds up to RecentLimit recent lists, every    *)
(* second of them without its file, between load_list and toggle_favorite  *)
(* calls.                                                                  *)

MaxQueryCalls == 2

\* the limits get_recent_lists is asked with
QueryLimits == {1, DefaultQueryLimit, RecentLimit}

\* a query that drops from the metadata the paths it gives no list_info for
QueryLeaves_Pruned(md) ==
    [md EXCEPT !.recent_lists = SelectSeq(@, HasListInfo),
               !.favorite_lists = SelectSeq(@, HasListInfo)]

\* get_recent_lists, get_favorite_lists: the metadata after the call; they
\* only read self.metadata
QueryLeaves(md) == md

\* a call of get_recent_lists(limit)
call_get_recent_lists(limit) ==
    /\ CallStart
    /\ metadata' = QueryLeaves(metadata)
    /\ ret' = Return("get_recent_lists", <<limit>>, get_recent_lists(limit),
                     "none", "none", "none")
    /\ UNCHANGED <<disk, files, dirs, pc, faults_left>>

\* a call of get_favorite_lists()
call_get_favorite_lists ==
    /\ CallStart
    /\ metadata' = QueryLeaves(metadata)
    /\ ret' = Return("get_favorite_lists", <<>>, get_favorite_lists,
                     "none", "none", "none")
    /\ UNCHANGED <<disk, files, dirs, pc, faults_left>>

\* the sidecar with k recent lists, the first two of them favorites
QueryMetadata(k) ==
    [SavedMetadata(k) EXCEPT !.favorite_lists = [i \in 1..(IF k < 2 THEN k ELSE 2) |->
                                                    RecentPath(i)]]

InitQueries ==
    \E k \in {0, 2, RecentLimit} :
        /\ metadata = QueryMetadata(k)
        /\ disk = [state |-> "ok", data |-> QueryMetadata(k)]
        /\ files = [p \in {RecentPath(i) : i \in {j \in 1..k : j % 2 = 0}} |->
                       "current_empty"] @@ ExternalFiles
        /\ dirs = {}
        /\ pc = Idle
        /\ ret = Return("__init__", <<>>, "None", "none", "none", "none")
        /\ calls_left = MaxQueryCalls
        /\ faults_left = 0

NextQueries ==
    \/ \E limit \in QueryLimits : call_get_recent_lists(limit)
    \/ call_get_favorite_lists
    \/ \E p \in {ExtJson, RecentPath(1), RecentPath(2)} : load_list(p)
    \/ \E p \in {ExtJson, RecentPath(1), RecentPath(2)} : toggle_favorite(p)

SpecQueries == InitQueries /\ [][NextQueries]_vars

----------------------------------------------------------------------------
(* Saving lists under a name: save_list and save_album_list called with    *)
(* file names and titles, some of which differ only in characters that     *)
(* _sanitize_filename replaces or cuts off.  Every export and every write  *)
(* of the metadata file succeeds here; ret.args holds the file name and    *)
(* the title of the call, ret.val the path it returned.                    *)

MaxSaveCalls == 2

\* a file name of one character more than _sanitize_filename keeps
LongName(last) == [i \in 1..MaxFilenameLen |-> "x"] \o <<last>>

\* the file names and titles the saves are called with
NamedSaves ==
    { [file_name |-> file_name, has_title |-> title # <<>>, title |-> title] :
        file_name \in { <<>>, <<"a", ":">>, <<"a", "?">>, <<"b">>,
                        LongName("y"), LongName("z") },
        title \in { <<>>, <<"a", "?">>, <<"t">> } }

\* metadata.get("title", ..) of export_to_new_format and of save_album_list
MyAlbumList == <<"M", "y", " ", "A", "l", "b", "u", "m", " ", "L", "i", "s", "t">>

Untitled == <<"U", "n", "t", "i", "t", "l", "e", "d">>

\* SimpleCollectionManager.save_album_list: the path of the file it writes
\* in the default collection; a file name it is given is not sanitized
ScmNamedSavePath(inp) ==
    LET file_name == IF inp.file_name # <<>> THEN inp.file_name
                     ELSE SCM_SanitizeFilename(IF inp.has_title THEN inp.title
                                               ELSE Untitled)
        named == IF EndsWith(file_name, SUSH) THEN file_name
                 ELSE file_name \o SUSH
    IN  Join(Join(collections_dir, ScmDefaultCollection), named)

\* save_list(albums, metadata, file_name) for a list without albums: the
\* export to SavePath, then add_list_to_recent, then the path is returned
save_list(inp) ==
    /\ CallStart
    /\ files' = FilesAfterExport(files, SavePath(inp),
                                 [title |-> IF inp.has_title THEN inp.title
                                            ELSE MyAlbumList], "ok")
    /\ RecordRecent(SavePath(inp), "ok")
    /\ ret' = Return("save_list", <<inp>>, SavePath(inp), "ok", "ok", "none")
    /\ UNCHANGED <<dirs, pc, faults_left>>

\* SimpleCollectionManager.save_album_list(albums, metadata, None, file_name)
\* for a list without albums
scm_save_album_list(inp) ==
    /\ CallStart
    /\ dirs' = dirs \cup {ScmDefaultCollection}
    /\ files' = (ScmNamedSavePath(inp) :>
                    [title |-> IF inp.has_title THEN inp.title ELSE Untitled])
                @@ files
    /\ RecordRecent(ScmNamedSavePath(inp), "ok")
    /\ ret' = Return("save_album_list", <<inp>>, ScmNamedSavePath(inp),
                     "ok", "ok", "none")
    /\ UNCHANGED <<pc, faults_left>>

InitSaves ==
    /\ metadata = DefaultMetadata
    /\ disk = [state |-> "absent", data |-> DefaultMetadata]
    /\ files = <<>>
    /\ dirs = {}
    /\ pc = Idle
    /\ ret = Return("__init__", <<>>, <<>>, "none", "none", "none")
    /\ calls_left = MaxSaveCalls
    /\ faults_left = 0

NextSaves ==
    \/ \E inp \in NamedSaves : save_list(inp)
    \/ \E inp \in NamedSaves : scm_save_album_list(inp)

SpecSaves == InitSaves /\ [][NextSaves]_vars

----------------------------------------------------------------------------
(* Steps and results the properties speak about *)

\* this step ends a call (by a return or an exception) of the operation op
Returns(op) ==
    /\ pc' = Idle
    /\ pc # Idle \/ calls_left' = calls_left - 1
    /\ ret'.op = op

\* the entries of s other than x, in their order
Without(s, x) == SelectSeq(s, LAMBDA y : y # x)

\* some collection of the metadata md has file_path as a member
InSomeCollection(md, file_path) ==
    \E c \in DOMAIN md.collections : InSeq(file_path, md.collections[c])

\* the metadata md refers to file_path
Referenced(md, file_path) ==
    \/ InSeq(file_path, md.recent_lists)
    \/ InSeq(file_path, md.favorite_lists)
    \/ InSomeCollection(md, file_path)

----------------------------------------------------------------------------
(* C1: recent_lists never holds more than 10 entries nor the same path     *)
(* twice, and every call that records a path (add_list_to_recent, any      *)
(* load_list, a save_list that returns) leaves that path at index 0,       *)
(* followed by the other previous entries in their previous order, cut to  *)
(* the bound.                                                              *)

C1_Recorded ==
    LET before == metadata.recent_lists
        after  == metadata'.recent_lists
        path   == ret'.args[1]
    IN  /\ after # <<>>
        /\ after[1] = path
        /\ Tail(after) = Take(Without(before, path), RecentLimit - 1)

C1_RecentBoundedMRU ==
    /\ [](/\ Len(metadata.recent_lists) <= RecentLimit
          /\ NoDup(metadata.recent_lists))
    /\ [][(\/ Returns("add_list_to_recent")
           \/ Returns("load_list")
           \/ Returns("save_list") /\ ret'.val = "path") => C1_Recorded]_vars

\* a full recent list from which an entry was evicted: a list file that was
\* recorded when it was written is no longer among the ten
C1_Witness ==
    /\ Len(metadata.recent_lists) = RecentLimit
    /\ \E p \in DOMAIN files : ~InSeq(p, metadata.recent_lists)
    /\ ret.op \in {"save_list", "load_list", "add_list_to_recent"}

----------------------------------------------------------------------------
(* C2: save_list touches the recent lists only after the list file was     *)
(* written completely.  The step that exports leaves the metadata and the  *)
(* sidecar as they were, also when the export raises; in every step of a   *)
(* save_list call, a crash between its two steps included, a path that     *)
(* recent_lists gains, in memory or in the sidecar, is the path of a       *)
(* completely written list file (the sidecar also gains the entries that   *)
(* the memory already held and an earlier failed write had left out).      *)

DiskRecent(d) == LoadMetadata(d).recent_lists

\* this step starts a save_list call: the export, returning or raising
C2_ExportStep ==
    /\ pc = Idle
    /\ calls_left' = calls_left - 1
    /\ pc'.at = "save_list" \/ ret'.op = "save_list"

\* every entry of after that neither before nor the memory held is the path of
\* a completely written list file
C2_GainsOnlyWritten(before, after) ==
    \A i \in 1..Len(after) :
        (~InSeq(after[i], before) /\ ~InSeq(after[i], metadata.recent_lists)) =>
            /\ after[i] \in DOMAIN files'
            /\ files'[after[i]] \in CurrentKinds

C2_SaveWritesFileFirst ==
    /\ [][C2_ExportStep => metadata' = metadata /\ disk' = disk]_vars
    /\ [][pc.at = "save_list" =>
            /\ C2_GainsOnlyWritten(DiskRecent(disk), DiskRecent(disk'))
            /\ ret'.op # "crash" =>
                 C2_GainsOnlyWritten(metadata.recent_lists, metadata'.recent_lists)]_vars

\* a crash between the two steps of the first save_list of a list: the list
\* file is there, complete, and neither the memory nor the sidecar names it
C2_Witness ==
    /\ ret.op = "crash"
    /\ ret.args[1] = "save_list"
    /\ ret.args[2] \in DOMAIN files
    /\ files[ret.args[2]] \in CurrentKinds
    /\ ~InSeq(ret.args[2], metadata.recent_lists)
    /\ ~InSeq(ret.args[2], DiskRecent(disk))

----------------------------------------------------------------------------
(* C3: when delete_list(p) has returned True, no recent_lists or           *)
(* favorite_lists entry and no collection of the metadata names p (nor of  *)
(* the sidecar, when its write succeeded), the file p does not exist, and  *)
(* a load_list(p) that follows raises: ImportError caused by the missing   *)
(* file when p has a list extension.                                       *)

C3_Deleted ==
    /\ pc = Idle
    /\ ret.op = "delete_list"
    /\ ret.val = "True"

----------------------------------------------------------------------------
(* C4: delete_list purges and saves before it removes.  While the call     *)
(* is between its two steps the file still exists and the metadata in      *)
(* memory no longer refers to it, nor does the sidecar when its write      *)
(* succeeded.  A list file disappears only in a step that starts from such *)
(* a state, and that step changes neither the metadata nor the sidecar; a  *)
(* crash in such a state leaves the file, and metadata without a reference *)
(* to it when the sidecar was written.                                     *)

C4_Forgotten(file_path) ==
    /\ ~Referenced(metadata, file_path)
    /\ ret.saved = "ok" => ~Referenced(LoadMetadata(disk), file_path)

C4_DeleteListPurgesFirst ==
    /\ [](pc.at = "delete_list" =>
            /\ pc.path \in DOMAIN files
            /\ C4_Forgotten(pc.path))
    /\ [][\A p \in DOMAIN files :
            p \notin DOMAIN files' => pc = [at |-> "delete_list", path |-> p]]_vars
    /\ [][pc.at = "delete_list" =>
            IF ret'.op = "crash"
            THEN /\ pc.path \in DOMAIN files'
                 /\ ret.saved = "ok" => ~Referenced(metadata', pc.path)
            ELSE metadata' = metadata /\ disk' = disk]_vars

\* os.remove failed for a list the metadata referred to: delete_list returns
\* False, the file is still there, the metadata has forgotten it
C4_Witness ==
    /\ ret.op = "delete_list"
    /\ ret.val = "False"
    /\ ret.fs = "error"
    /\ ret.via = "referenced"
    /\ ret.args[1] \in DOMAIN files
    /\ ~Referenced(metadata, ret.args[1])
    /\ ~Referenced(LoadMetadata(disk), ret.args[1])

----------------------------------------------------------------------------
(* C5: load_list on a path whose extension is neither .sush nor .json      *)
(* raises ValueError and leaves the metadata and the sidecar as they were  *)
(* before the call.                                                        *)

C5_UnsupportedLoadLeavesSidecar ==
    [][(/\ Returns("load_list")
        /\ ~EndsWith(ret'.args[1], SUSH)
        /\ ~EndsWith(ret'.args[1], JSON)) =>
            /\ ret'.val = "ValueError"
            /\ metadata' = metadata
            /\ disk' = disk]_vars

----------------------------------------------------------------------------
(* C6: a load_list(p) that returns leaves p at index 0 of recent_lists,    *)
(* and the extension alone decides the decoder: a load returns only for a  *)
(* .sush path holding a current-format list or a .json path holding a      *)
(* legacy list (in this code: one without albums), and a path with another *)
(* extension raises ValueError whatever the file holds.                    *)

----------------------------------------------------------------------------
(* C7: create_collection(X) for an X that exists returns without an error  *)
(* and changes nothing: X keeps its members, every other collection, the   *)
(* sidecar and the directories stay as they were.  A create_collection     *)
(* that returns for a name that is not blank leaves X a collection, which  *)
(* get_collections lists under its one key.                                *)

----------------------------------------------------------------------------
(* C8: rename_collection(old, new) returns False, raising nothing, and     *)
(* leaves the collections, the sidecar and the collection directories as   *)
(* they were, whenever old is no collection or new is one already (new =   *)
(* old included).                                                          *)

C8_RenameRefused ==
    [][Returns("rename_collection") =>
        LET old_name == ret'.args[1]
            new_name == ret'.args[2]
        IN  (\/ old_name \notin DOMAIN metadata.collections
             \/ new_name \in DOMAIN metadata.collections) =>
                /\ ret'.val = "False"
                /\ metadata' = metadata
                /\ disk' = disk
                /\ dirs' = dirs]_vars

\* a rename onto another existing collection was refused, and both keep
\* their members
C8_Witness ==
    /\ ret.op = "rename_collection"
    /\ ret.val = "False"
    /\ ret.args[1] # ret.args[2]
    /\ {ret.args[1], ret.args[2]} \subseteq DOMAIN metadata.collections
    /\ metadata.collections[ret.args[2]] # <<>>

----------------------------------------------------------------------------
(* C9: a rename_collection(old, new) that returns True leaves new with     *)
(* exactly the members old had, in their order, old no collection, as many *)
(* collections as before, and every other collection, recent_lists,        *)
(* favorite_lists and the list files as they were.                         *)

C9_RenamePreservesMembers ==
    [][(Returns("rename_collection") /\ ret'.val = "True") =>
        LET old_name == ret'.args[1]
            new_name == ret'.args[2]
            before == metadata.collections
            after == metadata'.collections
        IN  /\ old_name \in DOMAIN before
            /\ new_name \in DOMAIN after
            /\ after[new_name] = before[old_name]
            /\ old_name \notin DOMAIN after
            /\ Cardinality(DOMAIN after) = Cardinality(DOMAIN before)
            /\ \A c \in DOMAIN before \ {old_name} :
                   c \in DOMAIN after /\ after[c] = before[c]
            /\ DOMAIN after \subseteq (DOMAIN before \ {old_name}) \cup {new_name}
            /\ metadata'.recent_lists = metadata.recent_lists
            /\ metadata'.favorite_lists = metadata.favorite_lists
            /\ files' = files]_vars

\* a collection with a member was renamed while another collection existed
C9_Witness ==
    /\ ret.op = "rename_collection"
    /\ ret.val = "True"
    /\ metadata.collections[ret.args[2]] # <<>>
    /\ Cardinality(DOMAIN metadata.collections) >= 2

----------------------------------------------------------------------------
(* C10: when os.rename of the collection directory fails, rename_collection *)
(* still returns True, the metadata has the new name and not the old one,  *)
(* _save_metadata has run (the sidecar equals the metadata when the write  *)
(* succeeded) and the directory keeps its old name.                        *)

C10_RenameKeepsMetadataOnDirFailure ==
    [][(Returns("rename_collection") /\ ret'.fs = "error") =>
        LET old_name == ret'.args[1]
            new_name == ret'.args[2]
        IN  /\ ret'.val = "True"
            /\ new_name \in DOMAIN metadata'.collections
            /\ old_name \notin DOMAIN metadata'.collections
            /\ metadata'.collections[new_name] = metadata.collections[old_name]
            /\ ret'.saved \in WriteOutcomes
            /\ ret'.saved = "ok" => disk' = [state |-> "ok", data |-> metadata']
            /\ dirs' = dirs
            /\ old_name \in dirs']_vars

\* the directory rename failed: the collection is known under its new name,
\* in memory and in the sidecar, and its directory under the old one
C10_Witness ==
    /\ ret.op = "rename_collection"
    /\ ret.fs = "error"
    /\ ret.val = "True"
    /\ ret.args[1] \in dirs
    /\ ret.args[2] \notin dirs
    /\ ret.args[2] \in DOMAIN LoadMetadata(disk).collections

----------------------------------------------------------------------------
(* C11: delete_collection(name) for a name that is no collection returns   *)
(* False and changes nothing: metadata, sidecar, list files, directories.  *)
(* For a name that is a collection it returns True and the name is no      *)
(* longer a key of the collections, also when removing its directory       *)
(* failed; the other collections keep their members.                       *)

C11_DeleteCollectionResult ==
    [][Returns("delete_collection") =>
        LET name == ret'.args[1]
        IN  IF name \notin DOMAIN metadata.collections
            THEN /\ ret'.val = "False"
                 /\ metadata' = metadata
                 /\ disk' = disk
                 /\ files' = files
                 /\ dirs' = dirs
            ELSE /\ ret'.val = "True"
                 /\ name \notin DOMAIN metadata'.collections
                 /\ DOMAIN metadata'.collections = DOMAIN metadata.collections \ {name}
                 /\ \A c \in DOMAIN metadata'.collections :
                        metadata'.collections[c] = metadata.collections[c]]_vars

\* the directory of a collection could not be removed: delete_collection
\* returned True, the collection is gone and its directory is still there
C11_Witness ==
    /\ ret.op = "delete_collection"
    /\ ret.val = "True"
    /\ ret.fs = "error"
    /\ ret.args[1] \in dirs
    /\ ret.args[1] \notin DOMAIN metadata.collections

----------------------------------------------------------------------------
(* C12: delete_collection removes the grouping only.  Every list file that *)
(* existed before the call exists after it with the same content, the      *)
(* members of the deleted collection among them, and recent_lists and      *)
(* favorite_lists are unchanged.                                           *)

----------------------------------------------------------------------------
(* C13: whatever paths the metadata holds, get_recent_lists (with any      *)
(* limit), get_favorite_lists and get_collections return a list_info only  *)
(* for paths whose file exists when they are asked, in the order of the    *)
(* metadata, and return normally: a path whose file is missing is skipped. *)

\* every entry of shown is an existing file, and shown is asked without its
\* missing files
C13_OnlyExisting(asked, shown) ==
    /\ \A i \in 1..Len(shown) : shown[i] \in DOMAIN files
    /\ \A i \in 1..Len(shown) : InSeq(shown[i], asked)
    /\ \A i \in 1..Len(asked) :
           asked[i] \notin DOMAIN files => ~InSeq(asked[i], shown)

C13_QueriesSkipStale ==
    /\ [](/\ \A limit \in QueryLimits :
               C13_OnlyExisting(Take(metadata.recent_lists, limit),
                                get_recent_lists(limit))
          /\ C13_OnlyExisting(metadata.favorite_lists, get_favorite_lists)
          /\ \A c \in DOMAIN metadata.collections :
               C13_OnlyExisting(metadata.collections[c],
                                ShownCollections(metadata.collections)[c])
          /\ (pc = Idle /\ ret.op = "get_collections") =>
               /\ DOMAIN ret.val = DOMAIN metadata.collections
               /\ \A c \in DOMAIN ret.val :
                      C13_OnlyExisting(metadata.collections[c], ret.val[c]))

\* get_collections was asked while a list whose file does not exist was a
\* recent list and a member of a collection: the collection is shown without it
C13_Witness ==
    /\ pc = Idle
    /\ ret.op = "get_collections"
    /\ ListA \notin DOMAIN files
    /\ InSeq(ListA, metadata.recent_lists)
    /\ get_recent_lists(DefaultQueryLimit) = <<>>
    /\ \E c \in DOMAIN metadata.collections :
           /\ InSeq(ListA, metadata.collections[c])
           /\ ret.val[c] = <<>>

----------------------------------------------------------------------------
(* C14: the caller is never shown a store without a collection.  A store   *)
(* constructed on metadata without collections has exactly the default     *)
(* collection, empty; a store constructed on metadata with collections     *)
(* keeps them; and every get_collections call, after whatever calls went   *)
(* before, returns at least one collection.                                *)

C14_NeverCollectionless ==
    /\ []((pc = Idle /\ ret.op \in {"__init__", "get_collections"}) =>
             DOMAIN metadata.collections # {})
    /\ [][(pc' = Idle /\ ret' # ret /\ ret'.op \in {"__init__", "crash"}) =>
             IF DOMAIN LoadMetadata(disk).collections = {}
             THEN metadata'.collections = DictSet(NoCollections, DefaultCollection, <<>>)
             ELSE metadata'.collections = LoadMetadata(disk).collections]_vars
    /\ [][Returns("get_collections") =>
             /\ DOMAIN ret'.val # {}
             /\ DOMAIN ret'.val = DOMAIN metadata'.collections
             /\ DOMAIN metadata.collections # {} => metadata' = metadata
             /\ DOMAIN metadata.collections = {} =>
                    ret'.val = DictSet(NoCollections, DefaultCollection, <<>>)]_vars

\* the last collection had been removed: get_collections created the default
\* collection again and returned it
C14_Witness ==
    /\ pc = Idle
    /\ ret.op = "get_collections"
    /\ ret.saved \in WriteOutcomes
    /\ ret.val = DictSet(NoCollections, DefaultCollection, <<>>)
    /\ metadata.collections = ret.val

----------------------------------------------------------------------------
(* C15: for every file name, the result of _sanitize_filename holds none   *)
(* of the characters \ / : * ? " < > |, has at most 100 characters, is     *)
(* left as it is by a second application, and is the first 100 characters  *)
(* of the file name with every character outside that set unchanged.       *)

\* the result is safe and bounded
C15_SafeAndBounded(result) ==
    /\ \A i \in 1..Len(result) : result[i] \notin InvalidChars
    /\ Len(result) <= MaxFilenameLen

\* the result keeps the characters of the file name that are not invalid
C15_OthersUnchanged(filename, result) ==
    /\ Len(result) = IF Len(filename) > MaxFilenameLen
                     THEN MaxFilenameLen ELSE Len(filename)
    /\ \A i \in 1..Len(result) :
           filename[i] \notin InvalidChars => result[i] = filename[i]

C15_SanitizeIdempotentAndFrame ==
    /\ [](ret.op = "ListRepository._sanitize_filename" =>
             /\ C15_SafeAndBounded(ret.val)
             /\ SanitizeFilename(ret.val) = ret.val
             /\ C15_OthersUnchanged(ret.args[1], ret.val))
    /\ [](ret.op = "SimpleCollectionManager._sanitize_filename" =>
             /\ C15_SafeAndBounded(ret.val)
             /\ SCM_SanitizeFilename(ret.val) = ret.val
             /\ C15_OthersUnchanged(ret.args[1], ret.val))

----------------------------------------------------------------------------
(* C16: in the file written by export_to_new_format the entry at 0-based   *)
(* position i has rank i + 1, and of two entries the earlier one never has *)
(* fewer points, for every list, the lists longer than the points table    *)
(* included.                                                               *)

\* export_to_new_format has written the list it was given
C16_Exported ==
    /\ ret.op = "export_to_new_format"
    /\ ret.val = "None"

----------------------------------------------------------------------------
(* C17: a rank outside the points table gets exactly 1 point; the points   *)
(* of any rank are at least 1 and looking them up never raises; in the     *)
(* default table rank r of 1..60 has max(1, 61 - r) points.                *)

----------------------------------------------------------------------------------------------------------------------------------------
(* C18: the album_count that export_to_new_format writes is the number of  *)
(* albums it writes, whatever album_count the metadata it was given holds; *)
(* after any save (export_to_new_format, save_album_list) the written file *)
(* stores an album_count and it is the length of the stored albums.        *)

\* save_album_list has written the list it was given
C18_ScmSaved ==
    /\ ret.op = "save_album_list"
    /\ ret.val = "file_path"

\* the document of the file the last save wrote
C18_SavedData ==
    IF C18_ScmSaved THEN files[ScmSavePath(ret.args[2])].data ELSE files[ListA].data

C18_AlbumCountAfterAnySave ==
    [](C16_Exported \/ C18_ScmSaved =>
         /\ Len(C18_SavedData.albums) = Len(ret.args[1])
         /\ "album_count" \in DOMAIN C18_SavedData.metadata
         /\ C18_SavedData.metadata["album_count"] = Len(C18_SavedData.albums))

(* C18, amended: the album_count that export_to_new_format writes is the   *)
(* number of albums it writes, whatever album_count the metadata it was    *)
(* given holds; save_album_list writes every album it was given and stores *)
(* no album_count: an album_count that a save stored is the length of the  *)
(* stored albums.                                                          *)
C18_AlbumCountRecomputed ==
    [](/\ C16_Exported =>
              /\ files[ListA].data.metadata.album_count = Len(files[ListA].data.albums)
              /\ files[ListA].data.metadata.album_count = Len(ret.args[1])
       /\ C18_ScmSaved =>
              /\ Len(C18_SavedData.albums) = Len(ret.args[1])
              /\ "album_count" \notin DOMAIN C18_SavedData.metadata)

\* a list of two albums was exported with metadata that said 7
C18_Witness ==
    /\ C16_Exported
    /\ "album_count" \in DOMAIN ret.args[2]
    /\ ret.args[2]["album_count"] = 7
    /\ Len(ret.args[1]) = 2
    /\ files[ListA].data.metadata.album_count = 2

----------------------------------------------------------------------------
(* C19: round trip.  For every list, import_from_new_format on the file    *)
(* that export_to_new_format wrote for it succeeds and returns as many     *)
(* albums in the same order, each equal to the exported one in artist,     *)
(* title, release date, both genres, comment and cover payload, with a     *)
(* metadata album_count that is the number of albums.                      *)

\* the album read back has what the exported album had
C19_SameAlbum(exported, imported) ==
    /\ imported.artist = exported.artist
    /\ imported.name = exported.name
    /\ imported.release_date = exported.release_date
    /\ imported.genre1 = exported.genre1
    /\ imported.genre2 = exported.genre2
    /\ imported.comment = exported.comment
    /\ imported.attrs["cover_image_data"] = exported.attrs["cover_image_data"]
    /\ imported.attrs["cover_image_format"] = exported.attrs["cover_image_format"]

C19_RoundTrip ==
    [](/\ ret.op = "import_from_new_format"
       /\ ret.args # <<>>
       /\ ListA \in DOMAIN files
       /\ files[ListA].kind = "object"
       => /\ ret.val.raised = "none"
          /\ Len(ret.val.albums) = Len(ret.args[1])
          /\ \A i \in 1..Len(ret.val.albums) :
                 C19_SameAlbum(ret.args[1][i], ret.val.albums[i])
          /\ ret.val.metadata["album_count"] = Len(ret.args[1]))

----------------------------------------------------------------------------
(* C20: a release date that cannot be parsed never aborts a decode.        *)
(* import_from_old_format on a JSON array and import_from_new_format on a  *)
(* JSON object return every entry of the list, an entry whose release_date *)
(* is malformed or missing with today's date; ImportError is raised only   *)
(* for a file that cannot be read or parsed.                               *)

\* the file the decoder of the last call read, when it holds the JSON
\* document the decoder expects
C20_Readable ==
    \/ ret.op = "import_from_old_format" /\ Content(files, ExtJson).kind = "array"
    \/ ret.op = "import_from_new_format" /\ Content(files, ListA).kind = "object"

\* the date an entry's release_date stands for, today when it stands for none
C20_DateOrToday(op, value) ==
    LET r == IF op = "import_from_old_format"
             THEN FromDayMonthYear(value) ELSE FromIsoFormat(value)
    IN  IF r.raised = "none" THEN r.date ELSE Today

C20_BadDateNeverAborts ==
    [](C20_Readable =>
         LET entries == IF ret.op = "import_from_old_format"
                        THEN files[ExtJson].data.albums ELSE files[ListA].data.albums
         IN  /\ ret.val.raised = "none"
             /\ Len(ret.val.albums) = Len(entries)
             /\ \A i \in 1..Len(ret.val.albums) :
                    ret.val.albums[i].release_date =
                        C20_DateOrToday(ret.op, entries[i].release_date))

----------------------------------------------------------------------------
(* C21: import_external_list never raises.  It returns the path of the new *)
(* list in the repository when the load and the save succeeded, and None   *)
(* otherwise; when it returns None the list files of the repository are    *)
(* what they were before the call and recent_lists is unchanged.           *)

C21_ImportExternalResult ==
    [][Returns("import_external_list") =>
        /\ ret'.val \in {"path", "None"}
        /\ ret'.val = "path" =>
               /\ ret'.args[2] \in DOMAIN files'
               /\ files'[ret'.args[2]] \in CurrentKinds
        /\ ret'.val = "None" =>
               /\ files' = files
               /\ metadata' = metadata
               /\ disk' = disk]_vars

----------------------------------------------------------------------------
(* C22: the migration sweep takes every path of its input in order.  A     *)
(* path without a file is skipped, a file that fails (no JSON, a legacy    *)
(* array, an album that cannot be built, a save error) does not stop the   *)
(* paths after it, and imported_count is the number of files whose save    *)
(* into the Default collection succeeded.                                  *)

\* the sweep is over
C22_Done ==
    /\ ret.op = "migrate_existing_lists"
    /\ ret.saved = "done"

C22_SweepTakesEveryFile ==
    [](C22_Done =>
         LET recent_files == ret.args[1]
             turns == ret.via
         IN  /\ Len(turns) = Len(recent_files)
             /\ \A i \in 1..Len(turns) :
                    /\ turns[i][1] = recent_files[i]
                    /\ recent_files[i] \notin DOMAIN MigrateFiles => turns[i][2] = "skipped"
                    /\ turns[i][2] = "saved" =>
                           /\ MigratePath(recent_files[i]) \in DOMAIN files
                           /\ InSeq(MigratePath(recent_files[i]), metadata.recent_lists)
             /\ ret.val = Cardinality({i \in 1..Len(turns) : turns[i][2] = "saved"}))

\* a sweep of three paths: the first has no file, the second failed, and the
\* third was imported
C22_Witness ==
    /\ C22_Done
    /\ Len(ret.via) = 3
    /\ ret.via[1][2] = "skipped"
    /\ ret.via[2][2] = "failed"
    /\ ret.via[3][2] = "saved"
    /\ ret.val = 1

----------------------------------------------------------------------------
(* C23: no exception of the list codec leaves the repository as it is:     *)
(* when save_list or load_list fails because export_to_new_format or a     *)
(* decoder raised, the caller gets an error of the repository's own kind   *)
(* that wraps it, never the ExportError or ImportError of the codec.       *)

\* the exceptions of album_list_manager
C23_CodecErrors == {"ImportError", "ImportError: FileNotFoundError", "ExportError"}

C23_CodecErrorsWrapped ==
    [](ret.op \in {"save_list", "load_list"} => ret.val \notin C23_CodecErrors)

----------------------------------------------------------------------------
(* C24: a save never writes a list file in part.  When export_to_new_format *)
(* or save_album_list raises, for an album that cannot be converted or     *)
(* written, the list files are what they were before the call: no file is  *)
(* left cut off, and a list that was at the destination is still there.    *)

C24_NoPartialWrite ==
    [][(/\ ret'.op \in {"export_to_new_format", "save_album_list"}
        /\ calls_left' = calls_left - 1
        /\ ret'.val \notin {"None", "file_path"}) => files' = files]_vars

----------------------------------------------------------------------------
(* C25: with two repositories on one directory the last writer wins.  When *)
(* an instance persists its metadata, metadata.json holds exactly the      *)
(* metadata of that instance: whatever the other instance persisted since  *)
(* this one loaded (a recent entry, a favorite, a collection) is gone from *)
(* the file.                                                               *)

C25_LastWriterWins ==
    [][(/\ ret'.op \in {"add_list_to_recent", "toggle_favorite", "create_collection"}
        /\ calls_left' = calls_left - 1
        /\ ret'.saved = "ok") =>
            /\ disk'.state = "ok"
            /\ disk'.data = metadata'[ret'.args[1]]]_vars

\* A recorded a recent list and created a collection, B then marked a
\* favorite: the file holds B's favorite and neither A's recent list nor its
\* collection, which A still has in memory
C25_Witness ==
    /\ ret.op = "toggle_favorite"
    /\ ret.args[1] = "B"
    /\ ret.saved = "ok"
    /\ metadata["A"].recent_lists = <<ListA>>
    /\ "B" \in DOMAIN metadata["A"].collections
    /\ disk.data.recent_lists = <<>>
    /\ "B" \notin DOMAIN disk.data.collections
    /\ disk.data.favorite_lists = <<ListA>>

----------------------------------------------------------------------------
(* C26: get_recent_lists(limit) and get_favorite_lists() leave the sidecar *)
(* alone, in memory and on disk: a path whose file is gone stays in        *)
(* recent_lists and keeps its slot.  get_recent_lists cuts to the limit    *)
(* before it looks at the files: its result is, in the order of the        *)
(* sidecar, the paths among the first limit entries whose file exists.     *)

\* the entries of paths whose file exists
C26_Existing(paths) == SelectSeq(paths, LAMBDA p : p \in DOMAIN files)

C26_QueriesArePure ==
    [][(Returns("get_recent_lists") \/ Returns("get_favorite_lists")) =>
        /\ metadata' = metadata
        /\ disk' = disk
        /\ files' = files]_vars

C26_ResultIsExistingSubset ==
    /\ C26_QueriesArePure
    /\ [](ret.op = "get_recent_lists" =>
             ret.val = C26_Existing(Take(metadata.recent_lists, ret.args[1])))

(* C26, amended: the queries leave the sidecar alone as above, and the     *)
(* result of get_recent_lists is, in the order of the sidecar, the paths   *)
(* among the first limit entries whose file exists and can be read as a    *)
(* JSON object: an entry whose file exists but holds something else (a     *)
(* legacy array, no JSON) is left out as well.                             *)
C26_ResultIsReadableSubset ==
    /\ C26_QueriesArePure
    /\ [](ret.op = "get_recent_lists" =>
             LET first == Take(metadata.recent_lists, ret.args[1])
             IN  /\ ret.val = SelectSeq(C26_Existing(first),
                                        LAMBDA p : files[p] \in CurrentKinds)
                 /\ \A i \in 1..Len(ret.val) : InSeq(ret.val[i], first))
    /\ [](ret.op = "get_favorite_lists" =>
             ret.val = SelectSeq(C26_Existing(metadata.favorite_lists),
                                 LAMBDA p : files[p] \in CurrentKinds))

\* get_recent_lists(5) on a sidecar with 10 recent lists, every second one
\* without its file: 2 lists come back although 5 exist, and all 10 entries
\* are still there
C26_Witness ==
    /\ ret.op = "get_recent_lists"
    /\ ret.args[1] = DefaultQueryLimit
    /\ Len(metadata.recent_lists) = RecentLimit
    /\ Len(ret.val) = 2
    /\ Len(C26_Existing(metadata.recent_lists)) = 5
    /\ disk.data = metadata

----------------------------------------------------------------------------
(* C27: after any calls no collection holds the same path twice.           *)
(* add_to_collection(p, c) leaves p a member of c, creating c when it is   *)
(* no collection, leaves every other collection as it was, changes nothing *)
(* when p is a member already (a second call is without effect), and does  *)
(* so whether the file p exists or not.                                    *)

C27_NoDuplicateMembers ==
    /\ [](\A c \in DOMAIN metadata.collections : NoDup(metadata.collections[c]))
    /\ [][Returns("add_to_collection") =>
            LET file_path == ret'.args[1]
                collection_name == ret'.args[2]
                before == metadata.collections
                after == metadata'.collections
            IN  /\ ret'.val = "None"
                /\ DOMAIN after = DOMAIN before \cup {collection_name}
                /\ InSeq(file_path, after[collection_name])
                /\ \A c \in DOMAIN after \ {collection_name} : after[c] = before[c]
                /\ after[collection_name] =
                       IF collection_name \in DOMAIN before
                       THEN IF InSeq(file_path, before[collection_name])
                            THEN before[collection_name]
                            ELSE Append(before[collection_name], file_path)
                       ELSE <<file_path>>]_vars

\* the second call was add_to_collection for a path that has no file: the
\* collection, which the repository did not start with, holds the path once
C27_Witness ==
    /\ ret.op = "add_to_collection"
    /\ ret.args = <<ListA, "A">>
    /\ ListA \notin DOMAIN files
    /\ calls_left = MaxCalls - 2
    /\ metadata.collections["A"] = <<ListA>>
    /\ metadata.collections[DefaultCollection] = <<>>

----------------------------------------------------------------------------
(* C28: removing the last member of a collection leaves the collection in  *)
(* place whichever operation removes it: when p is the only member of c,   *)
(* after remove_from_collection(p, c) and after the purge of               *)
(* delete_list(p) c is a collection without members.                       *)

\* this step removes file_path from the collections: by
\* remove_from_collection(file_path, collection_name) or by delete_list(file_path)
C28_Removes(file_path, collection_name) ==
    /\ calls_left' = calls_left - 1
    /\ \/ ret'.op = "remove_from_collection" /\ ret'.args = <<file_path, collection_name>>
       \/ ret'.op = "delete_list:purged" /\ ret'.args = <<file_path>>

C28_EmptiedCollectionStays ==
    [][\A file_path \in Paths, collection_name \in DOMAIN metadata.collections :
          (/\ metadata.collections[collection_name] = <<file_path>>
           /\ C28_Removes(file_path, collection_name)) =>
              /\ collection_name \in DOMAIN metadata'.collections
              /\ metadata'.collections[collection_name] = <<>>]_vars

----------------------------------------------------------------------------
(* C30: a load that fails leaves the recent lists alone.  When load_list(p) *)
(* raises because the file p is missing or cannot be decoded, recent_lists *)
(* is the same as before the call, in memory and in the sidecar.           *)

C30_FailedLoadLeavesRecent ==
    [][(/\ Returns("load_list")
        /\ ret'.val \in {"ImportError", "ImportError: FileNotFoundError"}) =>
            /\ metadata'.recent_lists = metadata.recent_lists
            /\ LoadMetadata(disk').recent_lists = LoadMetadata(disk).recent_lists]_vars

----------------------------------------------------------------------------
(* C29: save_list never overwrites a list file that belongs to a different *)
(* list: two saves with different file names or titles write to different  *)
(* paths, so that the content of an existing list file changes only when   *)
(* the same name is saved again.                                           *)

\* the name a save is given: the file name, the title without one, with
\* the extension .sush left aside
C29_Name(inp) ==
    LET given == IF inp.file_name # <<>> THEN inp.file_name ELSE inp.title
    IN  IF EndsWith(given, SUSH) THEN SubSeq(given, 1, Len(given) - Len(SUSH))
        ELSE given

\* C29: of two saves of a store, one after the other, under different names,
\* the second returns another path than the first and leaves the file of
\* the first as it was
C29_DifferentNamesDifferentPaths ==
    [][(/\ ret'.op \in {"save_list", "save_album_list"}
        /\ ret.op = ret'.op
        /\ calls_left' = calls_left - 1
        /\ C29_Name(ret.args[1]) # C29_Name(ret'.args[1])) =>
            /\ ret'.val # ret.val
            /\ files'[ret.val] = files[ret.val]]_vars

====
